---- MODULE Spec2Model ----
(***************************************************************************)
(* Agora: debate turn-taking and session lifecycle.                        *)
(*                                                                         *)
(* A DebateSession (src/models/debate.py) is modelled as a record with the *)
(* fields of the dataclass; every method is an operator from the record    *)
(* before the call (and the wall-clock reading) to the record after it.    *)
(* DebateService (src/services/debate_service.py) is modelled on top of    *)
(* these operators, with the backend's outcome as an input.                *)
(*                                                                         *)
(* Abstractions: Message.id and Message.timestamp are not kept (no         *)
(* operation reads them); message contents are tags; description, context  *)
(* and moderator_enabled are never read by the state machine.              *)
(*                                                                         *)
(* A DialogueSession (src/models/dialogue.py) is a record too; the         *)
(* sessions created are kept by reference in dialogues, the registry of    *)
(* SessionManager maps ids to references, and the files of SessionService  *)
(* hold the JSON documents written by save.                                *)
(*                                                                         *)
(* Specifications:                                                         *)
(*   Spec             every call on one debate, in any order               *)
(*   SpecRotation     the same calls with the advance_speaker calls counted*)
(*   SpecScenario     a started debate driven turn by turn to completion   *)
(*   SpecService      a debate run through DebateService, with pauses      *)
(*   SpecServiceFair  the debate loop left to run, under weak fairness     *)
(*   SpecDialogue     one dialogue, DialogueService and the clock          *)
(*   SpecManager      the SessionManager registry and the clock            *)
(*   SpecStore        sessions saved to and loaded from SessionService,    *)
(*                    and the console loops that save after each turn      *)
(*   SpecDirectory    dialogues ended, paused, listed and evicted          *)
(*   SpecDebateDirectory  a registered debate beside a dialogue            *)
(*   SpecLog          the log methods of a dialogue and of a debate        *)
(*   SpecHistory      the histories handed to the backend for a turn       *)
(*   SpecConsole      the interactive debate loop of ConsoleUI             *)
(***************************************************************************)
EXTENDS Integers, Sequences, FiniteSets, TLC

\* ------------------------------------------------------------------ bounds
MaxParticipants == 2
MaxLog == 2
MaxTurns == 1
MaxAdvances == 3
MaxScenarioTurns == 3
MaxSessions == 2
MaxClock == 4
MaxDialogueLog == 4

\* settings.max_history_length and settings.session_timeout (config/
\* settings.py 25-26: 20 messages, 3600 seconds), scaled down
max_history_length == 1
session_timeout == 2

\* --------------------------------------------------------------- registry
\* PhilosopherType values (a sample of the ten of the enum).
PhilosopherType == {"socrates", "kant", "nietzsche"}

\* PhilosopherFactory.create_philosopher(t).name
PhilosopherName(t) ==
    CASE t = "socrates" -> "Socrates"
      [] t = "kant" -> "Immanuel Kant"
      [] t = "nietzsche" -> "Friedrich Nietzsche"

\* Optional[datetime]
None == <<>>
Some(t) == <<t>>

\* --------------------------------------------------------------- messages
\* A dict is a set of <<key, value>> pairs.
DictGet(d, k, default) ==
    IF \E p \in d : p[1] = k THEN (CHOOSE p \in d : p[1] = k)[2] ELSE default

\* {**a, **b}: the keys of b override those of a
DictMerge(a, b) ==
    {p \in a : ~ \E q \in b : q[1] = p[1]} \cup b

Message(type, content, metadata) ==
    [type |-> type, content |-> content, metadata |-> metadata]

\* --------------------------------------------------------- DebateSession
DebateParticipant(philosopher_type, position) ==
    [philosopher_type |-> philosopher_type,
     name |-> PhilosopherName(philosopher_type),
     position |-> position,
     turn_count |-> 0,
     last_response_time |-> None]

DebateSession(t, max_turns) ==
    [id |-> "debate-uuid",
     topic |-> "topic",
     participants |-> <<>>,
     messages |-> <<>>,
     current_speaker_index |-> 0,
     status |-> "preparing",
     created_at |-> t,
     started_at |-> None,
     completed_at |-> None,
     last_activity |-> t,
     max_turns_per_participant |-> max_turns]

add_participant(s, philosopher_type, position) ==
    [s EXCEPT !.participants =
        Append(@, DebateParticipant(philosopher_type, position))]

add_message_prepend(s, message, t) ==
    [s EXCEPT !.messages = <<message>> \o @, !.last_activity = t]

add_message(s, message, t) ==
    [s EXCEPT !.messages = Append(@, message), !.last_activity = t]

add_user_message(s, content, metadata, t) ==
    add_message(s, Message("user", content, metadata), t)

add_system_message(s, content, metadata, t) ==
    add_message(s, Message("system", content, metadata), t)

\* the loop of add_philosopher_message: first participant of that name
RECURSIVE bump_turn_count_all(_, _, _, _)
bump_turn_count_all(ps, name, i, t) ==
    IF i > Len(ps) THEN ps
    ELSE bump_turn_count_all(
            IF ps[i].name = name
            THEN [ps EXCEPT ![i].turn_count = @ + 1,
                            ![i].last_response_time = Some(t)]
            ELSE ps, name, i + 1, t)

RECURSIVE bump_turn_count(_, _, _, _)
bump_turn_count(ps, name, i, t) ==
    IF i > Len(ps) THEN ps
    ELSE IF ps[i].name = name
         THEN [ps EXCEPT ![i].turn_count = @ + 1,
                         ![i].last_response_time = Some(t)]
         ELSE bump_turn_count(ps, name, i + 1, t)

add_philosopher_message(s, philosopher_name, content, metadata, t) ==
    LET message == Message("philosopher", content,
                           DictMerge(metadata, {<<"speaker", philosopher_name>>}))
        s1 == add_message(s, message, t)
    IN [s1 EXCEPT !.participants = bump_turn_count(@, philosopher_name, 1, t)]

\* start_debate: [s |-> session after, exc |-> exception raised or "None"]
start_debate_unguarded(s, t) ==
    [s |-> add_system_message(
              [s EXCEPT !.status = "active",
                        !.started_at = Some(t),
                        !.last_activity = t],
              "begun", {}, t),
     exc |-> IF Len(s.participants) < 2 THEN "ValueError" ELSE "None"]

start_debate_no_message(s, t) ==
    IF Len(s.participants) < 2
    THEN [s |-> s, exc |-> "ValueError"]
    ELSE [s |-> [s EXCEPT !.status = "active",
                          !.started_at = Some(t),
                          !.last_activity = t],
          exc |-> "None"]

start_debate(s, t) ==
    IF Len(s.participants) < 2
    THEN [s |-> s, exc |-> "ValueError"]
    ELSE [s |-> add_system_message(
                   [s EXCEPT !.status = "active",
                             !.started_at = Some(t),
                             !.last_activity = t],
                   "begun", {}, t),
          exc |-> "None"]

\* the returned participant's name, or "None"; a list index out of range
\* raises IndexError
get_current_speaker(s) ==
    IF Len(s.participants) = 0 \/ s.status # "active"
    THEN "None"
    ELSE IF s.current_speaker_index >= Len(s.participants)
    THEN "IndexError"
    ELSE s.participants[s.current_speaker_index + 1].name

advance_speaker_no_wrap(s) ==
    IF Len(s.participants) = 0 THEN s
    ELSE [s EXCEPT !.current_speaker_index = @ + 1]

advance_speaker_skip(s) ==
    IF Len(s.participants) = 0 THEN s
    ELSE [s EXCEPT !.current_speaker_index = (@ + 2) % Len(s.participants)]

advance_speaker(s) ==
    IF Len(s.participants) = 0 THEN s
    ELSE [s EXCEPT !.current_speaker_index = (@ + 1) % Len(s.participants)]

\* the loop of is_debate_complete
RECURSIVE all_reached_max(_, _, _)
all_reached_max(ps, i, max_turns) ==
    IF i > Len(ps) THEN TRUE
    ELSE IF ps[i].turn_count < max_turns THEN FALSE
         ELSE all_reached_max(ps, i + 1, max_turns)

is_debate_complete_any_status(s) ==
    all_reached_max(s.participants, 1, s.max_turns_per_participant)

is_debate_complete_first_only(s) ==
    IF s.status # "active" THEN FALSE
    ELSE Len(s.participants) = 0
         \/ s.participants[1].turn_count >= s.max_turns_per_participant

is_debate_complete(s) ==
    IF s.status # "active" THEN FALSE
    ELSE all_reached_max(s.participants, 1, s.max_turns_per_participant)

complete_debate_reset(s, t) ==
    add_system_message(
        [s EXCEPT !.status = "completed", !.completed_at = Some(t),
                  !.current_speaker_index = 0],
        "concluded", {}, t)

complete_debate(s, t) ==
    add_system_message(
        [s EXCEPT !.status = "completed", !.completed_at = Some(t)],
        "concluded", {}, t)

pause_debate_only_active(s) ==
    IF s.status = "active" THEN [s EXCEPT !.status = "paused"] ELSE s

pause_debate(s) ==
    [s EXCEPT !.status = "paused"]

resume_debate(s, t) ==
    IF s.status = "paused"
    THEN [s EXCEPT !.status = "active", !.last_activity = t]
    ELSE s

\* ---------------------------------------------------------- DebateService
\* The backend either answers (ok) with some text or fails; each private
\* generator catches every exception of the backend and returns its own
\* fallback line instead.
generate_opening_statement(s, participant, ok) ==
    IF ok THEN "text" ELSE "look_forward"

generate_debate_response(s, participant, user_input, ok) ==
    IF ok THEN "text" ELSE "most_intriguing"

generate_closing_summary(s, ok) ==
    IF ok THEN "text" ELSE "has_concluded"

create_debate(philosopher_types, max_turns_per_participant, t) ==
    LET RECURSIVE add_all(_, _)
        add_all(s, i) ==
            IF i > Len(philosopher_types) THEN s
            ELSE add_all(add_participant(s, philosopher_types[i], ""), i + 1)
    IN add_all(DebateSession(t, max_turns_per_participant), 1)

RECURSIVE opening_statements_skip_failed(_, _, _, _)
opening_statements_skip_failed(s, i, oks, t) ==
    IF i > Len(s.participants) THEN s
    ELSE opening_statements_skip_failed(
            IF oks[i]
            THEN add_philosopher_message(s, s.participants[i].name,
                    generate_opening_statement(s, s.participants[i], oks[i]),
                    {}, t)
            ELSE s,
            i + 1, oks, t)

\* for participant in session.participants: opening statement, then
\* add_philosopher_message(participant.name, statement)
RECURSIVE opening_statements(_, _, _, _)
opening_statements(s, i, oks, t) ==
    IF i > Len(s.participants) THEN s
    ELSE opening_statements(
            add_philosopher_message(s, s.participants[i].name,
                generate_opening_statement(s, s.participants[i], oks[i]),
                {}, t),
            i + 1, oks, t)

DebateService_start_debate(s, oks, t) ==
    LET r == start_debate(s, t)
    IN IF r.exc # "None"
       THEN [s |-> r.s, exc |-> "DebateServiceError"]
       ELSE [s |-> opening_statements(r.s, 1, oks, t), exc |-> "None"]

get_next_response_no_advance(s, user_input, ok, t) ==
    IF s.status # "active"
    THEN [s |-> s, ret |-> "None", path |-> "not_active"]
    ELSE IF get_current_speaker(s) = "None"
    THEN [s |-> s, ret |-> "None", path |-> "no_speaker"]
    ELSE IF is_debate_complete(s)
         THEN [s |-> complete_debate(s, t),
               ret |-> generate_closing_summary(s, ok),
               path |-> "closing"]
    ELSE LET current_speaker == s.participants[s.current_speaker_index + 1]
             response == generate_debate_response(s, current_speaker,
                                                  user_input, ok)
             s1 == add_philosopher_message(s, current_speaker.name,
                                           response, {}, t)
         IN [s |-> s1, ret |-> response, path |-> "turn"]

get_next_response_completes_after_turn(s, user_input, ok, t) ==
    IF s.status # "active"
    THEN [s |-> s, ret |-> "None", path |-> "not_active"]
    ELSE IF get_current_speaker(s) = "None"
    THEN [s |-> s, ret |-> "None", path |-> "no_speaker"]
    ELSE IF is_debate_complete(s)
         THEN [s |-> complete_debate(s, t),
               ret |-> generate_closing_summary(s, ok),
               path |-> "closing"]
    ELSE LET current_speaker == s.participants[s.current_speaker_index + 1]
             response == generate_debate_response(s, current_speaker,
                                                  user_input, ok)
             s1 == add_philosopher_message(s, current_speaker.name,
                                           response, {}, t)
             s2 == advance_speaker(s1)
         IN [s |-> IF is_debate_complete(s2)
                   THEN complete_debate(s2, t) ELSE s2,
             ret |-> response, path |-> "turn"]

\* [s |-> session after, ret |-> returned text or "None",
\*  path |-> the return statement taken]
get_next_response(s, user_input, ok, t) ==
    IF s.status # "active"
    THEN [s |-> s, ret |-> "None", path |-> "not_active"]
    ELSE IF get_current_speaker(s) = "None"
    THEN [s |-> s, ret |-> "None", path |-> "no_speaker"]
    ELSE IF is_debate_complete(s)
         THEN [s |-> complete_debate(s, t),
               ret |-> generate_closing_summary(s, ok),
               path |-> "closing"]
    ELSE LET current_speaker == s.participants[s.current_speaker_index + 1]
             response == generate_debate_response(s, current_speaker,
                                                  user_input, ok)
             s1 == add_philosopher_message(s, current_speaker.name,
                                           response, {}, t)
         IN [s |-> advance_speaker(s1), ret |-> response, path |-> "turn"]

add_user_input(s, user_message, t) ==
    add_user_message(s, user_message, {}, t)

\* -------------------------------------------------------- DialogueSession
\* dict[k] = v, del dict[k], k in dict
DictPut(d, k, v) == {p \in d : p[1] # k} \cup {<<k, v>>}
DictDel(d, k) == {p \in d : p[1] # k}
DictHas(d, k) == \E p \in d : p[1] = k

DialogueSession(id, philosopher_name, t) ==
    [id |-> id,
     philosopher_name |-> philosopher_name,
     messages |-> <<>>,
     created_at |-> t,
     last_activity |-> t,
     is_active |-> TRUE]

Dialogue_add_message_no_activity(s, message, t) ==
    [s EXCEPT !.messages = Append(@, message)]

Dialogue_add_message(s, message, t) ==
    [s EXCEPT !.messages = Append(@, message), !.last_activity = t]

Dialogue_add_user_message(s, content, metadata, t) ==
    Dialogue_add_message(s, Message("user", content, metadata), t)

Dialogue_add_philosopher_message(s, content, metadata, t) ==
    Dialogue_add_message(s, Message("philosopher", content, metadata), t)

Dialogue_add_system_message(s, content, metadata, t) ==
    Dialogue_add_message(s, Message("system", content, metadata), t)

is_expired_at_timeout(s, timeout_seconds, t) ==
    t - s.last_activity >= timeout_seconds

\* (datetime.now() - last_activity).total_seconds() > timeout_seconds
is_expired(s, timeout_seconds, t) ==
    t - s.last_activity > timeout_seconds

\* seq[start:] of Python, for any integer start: a negative start counts
\* from the end and is clamped at the beginning; -0 is 0
PySliceFrom(seq, start) ==
    LET lo == IF start < 0
              THEN (IF Len(seq) + start < 0 THEN 0 ELSE Len(seq) + start)
              ELSE (IF start > Len(seq) THEN Len(seq) ELSE start)
    IN SubSeq(seq, lo + 1, Len(seq))

\* get_recent_messages: the list returned
get_recent_messages(s, limit) ==
    IF Len(s.messages) > limit
    THEN PySliceFrom(s.messages, 0 - limit)
    ELSE s.messages

\* a text is the list of the pieces it is put together from
Text(content) == <<content>>
Prefixed(speaker, content) == <<"[", speaker, "]: ", content>>

RECURSIVE Dialogue_history_from(_, _, _)
Dialogue_history_from(messages, i, include_system) ==
    IF i > Len(messages) THEN <<>>
    ELSE LET message == messages[i]
             rest == Dialogue_history_from(messages, i + 1, include_system)
         IN IF ~ include_system /\ message.type = "system"
            THEN rest
            ELSE <<[role |-> IF message.type = "user"
                             THEN "user" ELSE "assistant",
                    content |-> Text(message.content)]>> \o rest

\* DialogueSession.get_conversation_history: the list returned
Dialogue_get_conversation_history(s, include_system) ==
    Dialogue_history_from(s.messages, 1, include_system)

clear_history_keeps_activity(s, t) ==
    [s EXCEPT !.messages = <<>>]

clear_history(s, t) ==
    [s EXCEPT !.messages = <<>>, !.last_activity = t]

RECURSIVE history_from_no_prefix(_, _, _)
history_from_no_prefix(messages, i, include_system) ==
    IF i > Len(messages) THEN <<>>
    ELSE LET message == messages[i]
             rest == history_from_no_prefix(messages, i + 1, include_system)
         IN IF ~ include_system /\ message.type = "system"
            THEN rest
            ELSE <<[role |-> IF message.type = "user"
                             THEN "user" ELSE "assistant",
                    content |-> Text(message.content)]>> \o rest

RECURSIVE history_from(_, _, _)
history_from(messages, i, include_system) ==
    IF i > Len(messages) THEN <<>>
    ELSE LET message == messages[i]
             rest == history_from(messages, i + 1, include_system)
             content ==
                 IF message.type = "philosopher"
                 THEN Prefixed(DictGet(message.metadata, "speaker",
                                       "Philosopher"),
                               message.content)
                 ELSE Text(message.content)
         IN IF ~ include_system /\ message.type = "system"
            THEN rest
            ELSE <<[role |-> IF message.type = "user"
                             THEN "user" ELSE "assistant",
                    content |-> content]>> \o rest

get_conversation_history_no_prefix(s, include_system) ==
    history_from_no_prefix(s.messages, 1, include_system)

\* DebateSession.get_conversation_history: the list returned
get_conversation_history(s, include_system) ==
    history_from(s.messages, 1, include_system)

\* -------------------------------------------------------- DialogueService
\* _get_philosopher_type_from_name: the type, or ValueError
get_philosopher_type_from_name(name) ==
    IF \E pt \in PhilosopherType : PhilosopherName(pt) = name
    THEN CHOOSE pt \in PhilosopherType : PhilosopherName(pt) = name
    ELSE "ValueError"

start_dialogue(philosopher_type, id, t) ==
    Dialogue_add_philosopher_message(
        DialogueSession(id, PhilosopherName(philosopher_type), t),
        "welcome", {}, t)

\* messages[-k:] for k >= 1
LastMessages(messages, k) ==
    IF Len(messages) <= k THEN messages
    ELSE SubSeq(messages, Len(messages) - k + 1, Len(messages))

\* _trim_session_history: the welcome message and the most recent ones
trim_session_history(s) ==
    IF Len(s.messages) > max_history_length * 2
    THEN [s EXCEPT !.messages =
             <<s.messages[1]>>
             \o LastMessages(s.messages, max_history_length * 2 - 1)]
    ELSE s

\* ---------------------------------- the history handed to the backend
\* GeminiService.estimate_tokens: len(text) // 4; a text of the history is
\* given by its length
estimate_tokens(length) == length \div 4

truncate_max_tokens == 2000

\* the loop of truncate_history: from the most recent message backwards,
\* until a message does not fit; lengths[i] is len(history[i]["content"])
RECURSIVE truncate_loop(_, _, _, _, _, _)
truncate_loop(history, lengths, i, total_tokens, truncated_history, max_tokens) ==
    IF i < 1 THEN truncated_history
    ELSE LET message_tokens == estimate_tokens(lengths[i])
         IN IF total_tokens + message_tokens > max_tokens
            THEN truncated_history
            ELSE truncate_loop(history, lengths, i - 1,
                               total_tokens + message_tokens,
                               <<history[i]>> \o truncated_history,
                               max_tokens)

truncate_history(history, lengths, max_tokens) ==
    IF history = <<>> THEN history
    ELSE truncate_loop(history, lengths, Len(history), 0, <<>>, max_tokens)

\* history[-max_history_length:] when the history is longer than that
last_max_history(history) ==
    IF Len(history) > max_history_length
    THEN PySliceFrom(history, 0 - max_history_length)
    ELSE history

prepare_conversation_history_oldest(s, lengths) ==
    LET history == Dialogue_get_conversation_history(s, FALSE)
    IN truncate_history(
           IF Len(history) > max_history_length
           THEN SubSeq(history, 1, max_history_length) ELSE history,
           lengths, truncate_max_tokens)

\* DialogueService._prepare_conversation_history; lengths: the lengths of
\* the contents of the max_history_length most recent entries
prepare_conversation_history(s, lengths) ==
    LET history == Dialogue_get_conversation_history(s, FALSE)
    IN truncate_history(last_max_history(history), lengths,
                        truncate_max_tokens)

debate_response_history_with_system(s) ==
    last_max_history(get_conversation_history(s, TRUE))

\* DebateService._generate_debate_response: the conversation_history it
\* passes to generate_response_sync
debate_response_history(s) ==
    last_max_history(get_conversation_history(s, FALSE))

send_message_trim_on_failure(s, user_message, ok, t) ==
    LET s1 == Dialogue_add_user_message(s, user_message, {}, t)
    IN IF get_philosopher_type_from_name(s.philosopher_name) = "ValueError"
       THEN [s |-> s1, ret |-> None, exc |-> "DialogueServiceError"]
       ELSE IF ok
       THEN LET s2 == Dialogue_add_philosopher_message(s1, "text", {}, t)
            IN [s |-> trim_session_history(s2),
                ret |-> Some(s2.messages[Len(s2.messages)]), exc |-> "None"]
       ELSE LET s2 == Dialogue_add_philosopher_message(s1, "apology", {}, t)
            IN [s |-> trim_session_history(s2),
                ret |-> Some(s2.messages[Len(s2.messages)]), exc |-> "None"]

\* send_message: [s |-> session after, ret |-> the Message returned or
\* None, exc |-> exception raised or "None"]; ok is the backend's outcome
\* (generate_response_sync returns a text or raises GeminiServiceError)
send_message(s, user_message, ok, t) ==
    LET s1 == Dialogue_add_user_message(s, user_message, {}, t)
    IN IF get_philosopher_type_from_name(s.philosopher_name) = "ValueError"
       THEN [s |-> s1, ret |-> None, exc |-> "DialogueServiceError"]
       ELSE IF ok
       THEN LET s2 == Dialogue_add_philosopher_message(s1, "text", {}, t)
            IN [s |-> trim_session_history(s2),
                ret |-> Some(s2.messages[Len(s2.messages)]), exc |-> "None"]
       ELSE LET s2 == Dialogue_add_philosopher_message(s1, "apology", {}, t)
            IN [s |-> s2,
                ret |-> Some(s2.messages[Len(s2.messages)]), exc |-> "None"]

\* --------------------------------------------------------- SessionManager
\* The registry maps a session id to a reference into the created sessions
\* (heap); each operator gives the registry after the call and the result.
add_dialogue_session(registry, heap, ref) ==
    [registry |-> DictPut(registry, heap[ref].id, ref),
     ret |-> heap[ref].id]

remove_dialogue_session(registry, session_id) ==
    IF DictHas(registry, session_id)
    THEN [registry |-> DictDel(registry, session_id), ret |-> TRUE]
    ELSE [registry |-> registry, ret |-> FALSE]

get_dialogue_session_no_evict(registry, heap, session_id, t) ==
    IF ~ DictHas(registry, session_id)
    THEN [registry |-> registry, ret |-> None]
    ELSE LET ref == DictGet(registry, session_id, None)
         IN IF is_expired(heap[ref], session_timeout, t)
            THEN [registry |-> registry, ret |-> None]
            ELSE [registry |-> registry, ret |-> Some(ref)]

\* ret: the session returned (its reference), or None
get_dialogue_session(registry, heap, session_id, t) ==
    IF ~ DictHas(registry, session_id)
    THEN [registry |-> registry, ret |-> None]
    ELSE LET ref == DictGet(registry, session_id, None)
         IN IF is_expired(heap[ref], session_timeout, t)
            THEN [registry |->
                     remove_dialogue_session(registry, session_id).registry,
                  ret |-> None]
            ELSE [registry |-> registry, ret |-> Some(ref)]

cleanup_expired_sessions_all(registry, heap, t) ==
    [registry |-> {}, ret |-> Cardinality(registry)]

cleanup_expired_sessions(registry, heap, t) ==
    LET expired_dialogue_ids ==
            {p[1] : p \in {q \in registry :
                              is_expired(heap[q[2]], session_timeout, t)}}
    IN [registry |-> {p \in registry : p[1] \notin expired_dialogue_ids},
        ret |-> Cardinality(expired_dialogue_ids)]

\* end_dialogue_session: [registry, heap, ret]
end_dialogue_session(registry, heap, session_id, t) ==
    LET r == get_dialogue_session(registry, heap, session_id, t)
    IN IF r.ret = None
       THEN [registry |-> r.registry, heap |-> heap, ret |-> FALSE]
       ELSE LET ref == r.ret[1]
                s1 == [heap[ref] EXCEPT !.is_active = FALSE]
            IN [registry |-> r.registry,
                heap |-> [heap EXCEPT ![ref] =
                    Dialogue_add_system_message(s1, "ended", {}, t)],
                ret |-> TRUE]

\* pause_dialogue_session: [registry, heap, ret]
pause_dialogue_session(registry, heap, session_id, t) ==
    LET r == get_dialogue_session(registry, heap, session_id, t)
    IN IF r.ret = None
       THEN [registry |-> r.registry, heap |-> heap, ret |-> FALSE]
       ELSE LET ref == r.ret[1]
                s1 == [heap[ref] EXCEPT !.is_active = FALSE]
            IN [registry |-> r.registry,
                heap |-> [heap EXCEPT ![ref] =
                    Dialogue_add_system_message(s1, "paused", {}, t)],
                ret |-> TRUE]

\* resume_dialogue_session: [registry, heap, ret]
resume_dialogue_session(registry, heap, session_id, t) ==
    LET r == get_dialogue_session(registry, heap, session_id, t)
    IN IF r.ret = None
       THEN [registry |-> r.registry, heap |-> heap, ret |-> FALSE]
       ELSE LET ref == r.ret[1]
                s1 == [heap[ref] EXCEPT !.is_active = TRUE]
            IN [registry |-> r.registry,
                heap |-> [heap EXCEPT ![ref] =
                    Dialogue_add_system_message(s1, "resumed", {}, t)],
                ret |-> TRUE]

\* the references in S as a list, in the order the sessions were
\* registered (a dict keeps insertion order; a session is registered when
\* it is created, so that order is the order of the references)
RECURSIVE RefList(_)
RefList(S) ==
    IF S = {} THEN <<>>
    ELSE LET m == CHOOSE x \in S : \A y \in S : x <= y
         IN <<m>> \o RefList(S \ {m})

get_active_dialogue_sessions_any_flag(registry, heap, t) ==
    LET expired_session_ids ==
            {p[1] : p \in {q \in registry :
                              is_expired(heap[q[2]], session_timeout, t)}}
    IN [registry |-> {p \in registry : p[1] \notin expired_session_ids},
        ret |-> RefList({p[2] : p \in {q \in registry :
                     ~ is_expired(heap[q[2]], session_timeout, t)}})]

\* get_active_dialogue_sessions: [registry after, ret |-> the list returned]
get_active_dialogue_sessions(registry, heap, t) ==
    LET expired_session_ids ==
            {p[1] : p \in {q \in registry :
                              is_expired(heap[q[2]], session_timeout, t)}}
        active_sessions ==
            {p[2] : p \in {q \in registry :
                 /\ ~ is_expired(heap[q[2]], session_timeout, t)
                 /\ heap[q[2]].is_active}}
    IN [registry |-> {p \in registry : p[1] \notin expired_session_ids},
        ret |-> RefList(active_sessions)]

\* The debate registry maps a session id to a reference to the debate; the
\* model has one DebateSession object, reference 1.
add_debate_session(registry, s) ==
    [registry |-> DictPut(registry, s.id, 1), ret |-> s.id]

\* get_debate_session: the reference registered under the id, or None
get_debate_session(registry, session_id) ==
    IF DictHas(registry, session_id)
    THEN Some(DictGet(registry, session_id, None))
    ELSE None

remove_debate_session(registry, session_id) ==
    IF DictHas(registry, session_id)
    THEN [registry |-> DictDel(registry, session_id), ret |-> TRUE]
    ELSE [registry |-> registry, ret |-> FALSE]

\* ------------------------------------------- to_dict / from_dict and JSON
\* A JSON object is a record; data.get(key, default):
JsonGet(data, key, default) ==
    IF key \in DOMAIN data THEN data[key] ELSE default

\* datetime.isoformat() gives a string, datetime.fromisoformat parses it;
\* an absent Optional[datetime] is written as null
JsonNull == <<"null">>
isoformat(t) == <<"iso", t>>
fromisoformat(x) == x[2]

isoformat_or_null(opt) ==
    IF opt # None THEN isoformat(opt[1]) ELSE JsonNull

fromisoformat_or_none(x) ==
    IF x # JsonNull THEN Some(fromisoformat(x)) ELSE None

\* [f(x) for x in seq]
MapSeq(f(_), seq) == [i \in 1 .. Len(seq) |-> f(seq[i])]

\* MessageType(value), DebateStatus(value), PhilosopherType(value)
MessageTypeValues == {"user", "philosopher", "system"}
DebateStatusValues == {"preparing", "active", "paused", "completed"}
EnumOf(values, v) == IF v \in values THEN v ELSE "ValueError"

Message_to_dict(m) ==
    [type |-> m.type, content |-> m.content, metadata |-> m.metadata]

Message_from_dict(data) ==
    Message(EnumOf(MessageTypeValues, JsonGet(data, "type", "user")),
            JsonGet(data, "content", ""),
            JsonGet(data, "metadata", {}))

DebateParticipant_to_dict_no_turn_count(p) ==
    [philosopher_type |-> p.philosopher_type,
     name |-> p.name,
     position |-> p.position,
     last_response_time |-> isoformat_or_null(p.last_response_time)]

DebateParticipant_to_dict(p) ==
    [philosopher_type |-> p.philosopher_type,
     name |-> p.name,
     position |-> p.position,
     turn_count |-> p.turn_count,
     last_response_time |-> isoformat_or_null(p.last_response_time)]

DebateParticipant_from_dict(data) ==
    [philosopher_type |-> EnumOf(PhilosopherType, data.philosopher_type),
     name |-> data.name,
     position |-> JsonGet(data, "position", ""),
     turn_count |-> JsonGet(data, "turn_count", 0),
     last_response_time |->
        fromisoformat_or_none(JsonGet(data, "last_response_time", JsonNull))]

DebateSession_to_dict(s) ==
    [id |-> s.id,
     topic |-> s.topic,
     participants |-> MapSeq(DebateParticipant_to_dict, s.participants),
     messages |-> MapSeq(Message_to_dict, s.messages),
     current_speaker_index |-> s.current_speaker_index,
     status |-> s.status,
     created_at |-> isoformat(s.created_at),
     started_at |-> isoformat_or_null(s.started_at),
     completed_at |-> isoformat_or_null(s.completed_at),
     last_activity |-> isoformat(s.last_activity),
     max_turns_per_participant |-> s.max_turns_per_participant]

\* t: datetime.now(), the default of created_at and last_activity
DebateSession_from_dict(data, t) ==
    [id |-> JsonGet(data, "id", "new-uuid"),
     topic |-> JsonGet(data, "topic", ""),
     participants |->
        MapSeq(DebateParticipant_from_dict, JsonGet(data, "participants", <<>>)),
     messages |->
        MapSeq(Message_from_dict, JsonGet(data, "messages", <<>>)),
     current_speaker_index |-> JsonGet(data, "current_speaker_index", 0),
     status |-> EnumOf(DebateStatusValues, JsonGet(data, "status", "preparing")),
     created_at |-> fromisoformat(JsonGet(data, "created_at", isoformat(t))),
     started_at |->
        fromisoformat_or_none(JsonGet(data, "started_at", JsonNull)),
     completed_at |->
        fromisoformat_or_none(JsonGet(data, "completed_at", JsonNull)),
     last_activity |->
        fromisoformat(JsonGet(data, "last_activity", isoformat(t))),
     max_turns_per_participant |->
        JsonGet(data, "max_turns_per_participant", 3)]

DialogueSession_to_dict(s) ==
    [id |-> s.id,
     philosopher_name |-> s.philosopher_name,
     messages |-> MapSeq(Message_to_dict, s.messages),
     created_at |-> isoformat(s.created_at),
     last_activity |-> isoformat(s.last_activity),
     is_active |-> s.is_active]

DialogueSession_from_dict(data, t) ==
    [id |-> JsonGet(data, "id", 0),
     philosopher_name |-> JsonGet(data, "philosopher_name", ""),
     messages |->
        MapSeq(Message_from_dict, JsonGet(data, "messages", <<>>)),
     created_at |-> fromisoformat(JsonGet(data, "created_at", isoformat(t))),
     last_activity |->
        fromisoformat(JsonGet(data, "last_activity", isoformat(t))),
     is_active |-> JsonGet(data, "is_active", TRUE)]

\* --------------------------------------------------------- SessionService
\* The files of a directory are a dict from the session id (the file name)
\* to the JSON document written.  save_*: [files, ret]; load_*: [s, exc].
save_debate_session(fs, s, t) ==
    LET session_data ==
            [session_type |-> "debate", saved_at |-> isoformat(t)]
            @@ DebateSession_to_dict(s)
    IN [files |-> [fs EXCEPT !.debates = DictPut(@, s.id, session_data)],
        ret |-> <<"debates", s.id>>]

load_debate_session(fs, session_id, t) ==
    IF ~ DictHas(fs.debates, session_id)
    THEN [s |-> None, exc |-> "SessionServiceError"]
    ELSE LET session_data == DictGet(fs.debates, session_id, None)
         IN IF JsonGet(session_data, "session_type", "") # "debate"
            THEN [s |-> None, exc |-> "SessionServiceError"]
            ELSE [s |-> Some(DebateSession_from_dict(session_data, t)),
                  exc |-> "None"]

save_dialogue_session(fs, s, t) ==
    LET session_data ==
            [session_type |-> "dialogue", saved_at |-> isoformat(t)]
            @@ DialogueSession_to_dict(s)
    IN [files |-> [fs EXCEPT !.dialogues = DictPut(@, s.id, session_data)],
        ret |-> <<"dialogues", s.id>>]

load_dialogue_session(fs, session_id, t) ==
    IF ~ DictHas(fs.dialogues, session_id)
    THEN [s |-> None, exc |-> "SessionServiceError"]
    ELSE LET session_data == DictGet(fs.dialogues, session_id, None)
         IN IF JsonGet(session_data, "session_type", "") # "dialogue"
            THEN [s |-> None, exc |-> "SessionServiceError"]
            ELSE [s |-> Some(DialogueSession_from_dict(session_data, t)),
                  exc |-> "None"]

\* auto_save_session of the console loops.  A save raises
\* SessionServiceError when the file cannot be opened (the file stays as it
\* was) or when the write fails after open(filepath, 'w') has emptied it
\* (what is left is no JSON document: json.load raises in load_*, which
\* gives SessionServiceError like a document without its session_type).
SaveOutcomes == {"saved", "unchanged", "truncated"}
Truncated == [truncated |-> TRUE]

auto_save_dialogue(fs, s, outcome, t) ==
    IF outcome = "saved"
    THEN [files |-> save_dialogue_session(fs, s, t).files, exc |-> "None"]
    ELSE IF outcome = "unchanged"
    THEN [files |-> fs, exc |-> "SessionServiceError"]
    ELSE [files |-> [fs EXCEPT !.dialogues = DictPut(@, s.id, Truncated)],
          exc |-> "SessionServiceError"]

auto_save_debate(fs, s, outcome, t) ==
    IF outcome = "saved"
    THEN [files |-> save_debate_session(fs, s, t).files, exc |-> "None"]
    ELSE IF outcome = "unchanged"
    THEN [files |-> fs, exc |-> "SessionServiceError"]
    ELSE [files |-> [fs EXCEPT !.debates = DictPut(@, s.id, Truncated)],
          exc |-> "SessionServiceError"]

\* ---------------------------------------------------------------- ConsoleUI
dialogue_loop_turn_rollback(s, fs, user_input, ok, outcome, t) ==
    LET r == send_message(s, user_input, ok, t)
    IN IF r.exc # "None"
       THEN [s |-> r.s, files |-> fs, msg |-> None,
             warning |-> "None", continue |-> TRUE]
       ELSE LET sv == auto_save_dialogue(fs, r.s, outcome, t)
            IN [s |-> IF sv.exc = "None" THEN r.s ELSE s,
                files |-> sv.files, msg |-> r.ret,
                warning |-> sv.exc, continue |-> TRUE]

\* One pass of _dialogue_loop with a message of the user (not a command):
\* send_message, then auto_save_session with its own try/except.
\* [s, files, msg |-> the reply printed, warning |-> the save error
\* caught, continue |-> the loop asks for the next input]
dialogue_loop_turn(s, fs, user_input, ok, outcome, t) ==
    LET r == send_message(s, user_input, ok, t)
    IN IF r.exc # "None"
       THEN [s |-> r.s, files |-> fs, msg |-> None,
             warning |-> "None", continue |-> TRUE]
       ELSE LET sv == auto_save_dialogue(fs, r.s, outcome, t)
            IN [s |-> r.s, files |-> sv.files, msg |-> r.ret,
                warning |-> sv.exc, continue |-> TRUE]

\* One pass of _debate_loop with an input that is no command:
\* get_next_response, then auto_save_session with its own try/except; the
\* loop ends when nothing was returned or the debate is no longer active.
\* _handle_dialogue_command on the session at ref: [registry, heap, files,
\* warning |-> the save error caught, end |-> the value returned]
DialogueCommands == {"/help", "/clear", "/end"}

handle_dialogue_command(registry, heap, fs, ref, command, outcome, t) ==
    IF command = "/clear"
    THEN [registry |-> registry,
          heap |-> [heap EXCEPT ![ref] = clear_history(@, t)],
          files |-> fs, warning |-> "None", end |-> FALSE]
    ELSE IF command = "/end"
    THEN LET sv == auto_save_dialogue(fs, heap[ref], outcome, t)
             r == end_dialogue_session(registry, heap, heap[ref].id, t)
         IN [registry |-> r.registry, heap |-> r.heap,
             files |-> sv.files, warning |-> sv.exc, end |-> TRUE]
    ELSE [registry |-> registry, heap |-> heap,
          files |-> fs, warning |-> "None", end |-> FALSE]

\* shown: the name printed before the response (console_ui 285-290), the
\* current speaker's when there is one, "Moderator" otherwise, "" when
\* nothing was returned.
debate_loop_turn(s, fs, user_input, ok, outcome, t) ==
    LET r == get_next_response(s, user_input, ok, t)
        sv == auto_save_debate(fs, r.s, outcome, t)
        current_speaker == get_current_speaker(r.s)
    IN [s |-> r.s, files |-> sv.files, path |-> r.path,
        ret |-> r.ret,
        shown |-> IF r.ret = "None" THEN ""
                  ELSE IF current_speaker # "None" THEN current_speaker
                  ELSE "Moderator",
        warning |-> sv.exc,
        continue |-> r.ret # "None" /\ r.s.status = "active"]

\* _handle_debate_command: [s, files, warning |-> the save error caught,
\* end |-> the value returned (True: the debate should end)]
DebateCommands == {"/pause", "/resume", "/end", "/status"}

handle_debate_command(s, fs, command, outcome, t) ==
    IF command = "/pause"
    THEN [s |-> pause_debate(s), files |-> fs,
          warning |-> "None", end |-> FALSE]
    ELSE IF command = "/resume"
    THEN [s |-> resume_debate(s, t), files |-> fs,
          warning |-> "None", end |-> FALSE]
    ELSE IF command = "/end"
    THEN LET s1 == complete_debate(s, t)
             sv == auto_save_debate(fs, s1, outcome, t)
         IN [s |-> s1, files |-> sv.files, warning |-> sv.exc, end |-> TRUE]
    ELSE [s |-> s, files |-> fs, warning |-> "None", end |-> FALSE]

\* what _debate_loop does after a pass that did not break: the test of
\* `while session.status.value == "active"`
debate_loop_condition(s) ==
    IF s.status = "active" THEN "input" ELSE "returned"

\* ------------------------------------------------------------------ state
VARIABLES
    session,    \* the DebateSession
    now,        \* what datetime.now() returns to the calls explored
    lastOp,     \* the last call made, with its argument, result or exception
    advances,   \* history: advance_speaker calls so far (while stable)
    stable,     \* history: no participant added since the first advance
    loop,       \* ConsoleUI: where the program is with _debate_loop
    dialogues,  \* the DialogueSession objects created so far, by reference
    dialogue_sessions,  \* SessionManager.dialogue_sessions: id -> reference
    debate_sessions,    \* SessionManager.debate_sessions: id -> the debate
    files       \* the session files of SessionService, per directory

vars == <<session, now, lastOp, advances, stable, loop,
          dialogues, dialogue_sessions, debate_sessions, files>>

debateVars == <<session, advances, stable, loop>>
dialogueVars == <<dialogues, dialogue_sessions, debate_sessions, files>>

\* the debate specifications: no dialogue, nothing registered, no file
NoFiles == [dialogues |-> {}, debates |-> {}]

NoDialogues ==
    /\ dialogues = <<>>
    /\ dialogue_sessions = {}
    /\ debate_sessions = {}
    /\ files = NoFiles

Op(name, ret) == [op |-> name, ret |-> ret]

RECURSIVE SeqsUpTo(_, _)
SeqsUpTo(S, n) ==
    IF n = 0 THEN {<<>>}
    ELSE LET shorter == SeqsUpTo(S, n - 1)
         IN shorter \cup {Append(q, x) : q \in shorter, x \in S}

\* the philosophers the explored debates draw their participants from
Cast == {"socrates", "kant"}
MaxTurnsChoices == 1 .. MaxTurns
SpeakerNames == {PhilosopherName(t) : t \in Cast} \cup {"Unknown"}
MetadataChoices == {{}, {<<"speaker", "Someone">>}}

\* the explored calls: any call on an empty log, and every call that leaves
\* at most MaxLog messages in the log
Fits(s) == Len(session.messages) = 0 \/ Len(s.messages) <= MaxLog

\* The session was constructed one clock reading before the calls that
\* follow; the debate state machine stores times and never compares them.
InitSession ==
    /\ now = 1
    /\ NoDialogues
    /\ \E types \in SeqsUpTo(Cast, MaxParticipants), m \in MaxTurnsChoices :
          session = create_debate(types, m, now - 1)
    /\ advances = 0
    /\ stable = TRUE
    /\ loop = "menu"

\* ------------------------------------------- Spec: every call on a debate
Init ==
    /\ InitSession
    /\ lastOp = Op("create_debate", "None")

AddParticipant ==
    /\ Len(session.participants) < MaxParticipants
    /\ \E pt \in Cast :
          session' = add_participant(session, pt, "")
    /\ lastOp' = Op("add_participant", "None")
    /\ UNCHANGED <<now, advances, stable, loop>>
    /\ UNCHANGED dialogueVars

StartDebate ==
    /\ LET r == start_debate(session, now)
       IN /\ Fits(r.s)
          /\ session' = r.s
          /\ lastOp' = Op("start_debate", r.exc)
    /\ UNCHANGED <<now, advances, stable, loop>>
    /\ UNCHANGED dialogueVars

AddPhilosopherMessage ==
    /\ \E name \in SpeakerNames, md \in MetadataChoices :
          LET s1 == add_philosopher_message(session, name, "text", md, now)
          IN /\ Fits(s1)
             /\ session' = s1
             /\ lastOp' = Op("add_philosopher_message", name)
    /\ UNCHANGED <<now, advances, stable, loop>>
    /\ UNCHANGED dialogueVars

AddUserMessage ==
    /\ LET s1 == add_user_message(session, "asked", {}, now)
       IN Fits(s1) /\ session' = s1
    /\ lastOp' = Op("add_user_message", "None")
    /\ UNCHANGED <<now, advances, stable, loop>>
    /\ UNCHANGED dialogueVars

AddSystemMessage ==
    /\ LET s1 == add_system_message(session, "note", {}, now)
       IN Fits(s1) /\ session' = s1
    /\ lastOp' = Op("add_system_message", "None")
    /\ UNCHANGED <<now, advances, stable, loop>>
    /\ UNCHANGED dialogueVars

AdvanceSpeaker ==
    /\ session' = advance_speaker(session)
    /\ lastOp' = Op("advance_speaker", get_current_speaker(session'))
    /\ UNCHANGED <<now, advances, stable, loop>>
    /\ UNCHANGED dialogueVars

IsDebateComplete ==
    /\ lastOp' = Op("is_debate_complete",
                    IF is_debate_complete(session) THEN "True" ELSE "False")
    /\ UNCHANGED <<session, now, advances, stable, loop>>
    /\ UNCHANGED dialogueVars

CompleteDebate ==
    /\ LET s1 == complete_debate(session, now)
       IN Fits(s1) /\ session' = s1
    /\ lastOp' = Op("complete_debate", "None")
    /\ UNCHANGED <<now, advances, stable, loop>>
    /\ UNCHANGED dialogueVars

PauseDebate ==
    /\ session' = pause_debate(session)
    /\ lastOp' = Op("pause_debate", "None")
    /\ UNCHANGED <<now, advances, stable, loop>>
    /\ UNCHANGED dialogueVars

ResumeDebate ==
    /\ session' = resume_debate(session, now)
    /\ lastOp' = Op("resume_debate", "None")
    /\ UNCHANGED <<now, advances, stable, loop>>
    /\ UNCHANGED dialogueVars

ServiceStartDebate ==
    /\ \E oks \in [1 .. Len(session.participants) -> BOOLEAN] :
          LET r == DebateService_start_debate(session, oks, now)
          IN /\ Fits(r.s)
             /\ session' = r.s
             /\ lastOp' = Op("DebateService.start_debate", r.exc)
    /\ UNCHANGED <<now, advances, stable, loop>>
    /\ UNCHANGED dialogueVars

GetNextResponse ==
    /\ \E ok \in BOOLEAN :
          LET r == get_next_response(session, "", ok, now)
          IN /\ Fits(r.s)
             /\ session' = r.s
             /\ lastOp' = Op("get_next_response", r.ret)
    /\ UNCHANGED <<now, advances, stable, loop>>
    /\ UNCHANGED dialogueVars

AddUserInput ==
    /\ LET s1 == add_user_input(session, "asked", now)
       IN Fits(s1) /\ session' = s1
    /\ lastOp' = Op("add_user_input", "None")
    /\ UNCHANGED <<now, advances, stable, loop>>
    /\ UNCHANGED dialogueVars

Next ==
    \/ AddParticipant
    \/ StartDebate
    \/ AddPhilosopherMessage
    \/ AddUserMessage
    \/ AddSystemMessage
    \/ AdvanceSpeaker
    \/ IsDebateComplete
    \/ CompleteDebate
    \/ PauseDebate
    \/ ResumeDebate
    \/ ServiceStartDebate
    \/ GetNextResponse
    \/ AddUserInput

Spec == Init /\ [][Next]_vars

\* ------------------------- SpecRotation: the calls, with advances counted
RotationInit ==
    /\ InitSession
    /\ lastOp = Op("rotation", "None")

RotAddParticipant ==
    /\ Len(session.participants) < MaxParticipants
    /\ \E pt \in Cast :
          session' = add_participant(session, pt, "")
    /\ stable' = (stable /\ advances = 0)
    /\ advances' = IF stable' THEN advances ELSE 0
    /\ UNCHANGED <<now, lastOp, loop>>
    /\ UNCHANGED dialogueVars

RotAdvanceSpeaker ==
    /\ stable => advances < MaxAdvances
    /\ session' = advance_speaker(session)
    /\ advances' = IF stable THEN advances + 1 ELSE 0
    /\ UNCHANGED <<now, lastOp, stable, loop>>
    /\ UNCHANGED dialogueVars

RotGetNextResponse ==
    /\ stable => advances < MaxAdvances
    /\ \E ok \in BOOLEAN :
          LET r == get_next_response(session, "", ok, now)
          IN /\ Fits(r.s)
             /\ session' = r.s
             /\ advances' = IF stable /\ r.path = "turn"
                            THEN advances + 1 ELSE advances
    /\ UNCHANGED <<now, lastOp, stable, loop>>
    /\ UNCHANGED dialogueVars

RotStartDebate ==
    /\ \E oks \in [1 .. Len(session.participants) -> BOOLEAN] :
          \E r \in {start_debate(session, now),
                    DebateService_start_debate(session, oks, now)} :
             Fits(r.s) /\ session' = r.s
    /\ UNCHANGED <<now, lastOp, advances, stable, loop>>
    /\ UNCHANGED dialogueVars

RotAddMessage ==
    /\ \E name \in SpeakerNames :
          \E s1 \in {add_philosopher_message(session, name, "text", {}, now),
                     add_user_message(session, "asked", {}, now)} :
             Fits(s1) /\ session' = s1
    /\ UNCHANGED <<now, lastOp, advances, stable, loop>>
    /\ UNCHANGED dialogueVars

RotLifecycle ==
    /\ \E s1 \in {pause_debate(session), resume_debate(session, now),
                  complete_debate(session, now)} :
          Fits(s1) /\ session' = s1
    /\ UNCHANGED <<now, lastOp, advances, stable, loop>>
    /\ UNCHANGED dialogueVars

RotationNext ==
    \/ RotAddParticipant
    \/ RotAdvanceSpeaker
    \/ RotGetNextResponse
    \/ RotStartDebate
    \/ RotAddMessage
    \/ RotLifecycle

SpecRotation == RotationInit /\ [][RotationNext]_vars

\* ------------ SpecScenario: a started debate driven turn by turn (spec 8)
\* participant lists of pairwise distinct philosophers, 2 or more
ScenarioCasts ==
    {types \in SeqsUpTo(PhilosopherType, Cardinality(PhilosopherType)) :
        /\ Len(types) >= 2
        /\ \A i, j \in 1 .. Len(types) : i # j => types[i] # types[j]}

\* more steps than any explored debate needs
ScenarioMaxSteps == Cardinality(PhilosopherType) * MaxScenarioTurns + 1

ScenarioInit ==
    /\ now = 1
    /\ NoDialogues
    /\ \E types \in ScenarioCasts, m \in 1 .. MaxScenarioTurns :
          session = start_debate(create_debate(types, m, now - 1), now).s
    /\ lastOp = Op("start_debate", "None")
    /\ advances = 0
    /\ stable = TRUE
    /\ loop = "menu"

\* one step: the current speaker's message, then advance_speaker
ScenarioStep ==
    /\ session.status = "active"
    /\ ~ is_debate_complete(session)
    /\ advances < ScenarioMaxSteps
    /\ LET s1 == add_philosopher_message(session, get_current_speaker(session),
                                         "text", {}, now)
       IN session' = advance_speaker(s1)
    /\ lastOp' = Op("advance_speaker", get_current_speaker(session'))
    /\ advances' = advances + 1
    /\ UNCHANGED <<now, stable, loop>>
    /\ UNCHANGED dialogueVars

ScenarioComplete ==
    /\ is_debate_complete(session)
    /\ session' = complete_debate(session, now)
    /\ lastOp' = Op("complete_debate", "None")
    /\ UNCHANGED <<now, advances, stable, loop>>
    /\ UNCHANGED dialogueVars

ScenarioNext ==
    \/ ScenarioStep
    \/ ScenarioComplete

SpecScenario == ScenarioInit /\ [][ScenarioNext]_vars

\* ------- SpecService: a debate run through DebateService (console_ui 213)
\* the selections _select_multiple_philosophers accepts: 2 or more choices,
\* the same philosopher any number of times
ServiceCasts ==
    {types \in SeqsUpTo(Cast, MaxParticipants) : Len(types) >= 2}

ServiceTurnsChoices == 1 .. MaxTurns + 1

\* the log of a debate that completes: the opening line, one opening
\* statement and max_turns - 1 further turns each, the closing line
ServiceMaxLog == MaxParticipants * (MaxTurns + 1) + 2

ServiceFits(s) == Len(s.messages) <= ServiceMaxLog

ServiceInit ==
    /\ now = 1
    /\ NoDialogues
    /\ \E types \in ServiceCasts, m \in ServiceTurnsChoices :
          session = create_debate(types, m, now - 1)
    /\ lastOp = Op("create_debate", "None")
    /\ advances = 0
    /\ stable = TRUE
    /\ loop = "menu"

SvcStartDebate ==
    /\ session.status = "preparing"
    /\ \E oks \in [1 .. Len(session.participants) -> BOOLEAN] :
          LET r == DebateService_start_debate(session, oks, now)
          IN /\ session' = r.s
             /\ lastOp' = Op("DebateService.start_debate", r.exc)
    /\ UNCHANGED <<now, advances, stable, loop>>
    /\ UNCHANGED dialogueVars

SvcGetNextResponse ==
    /\ session.status # "preparing"
    /\ \E ok \in BOOLEAN :
          LET r == get_next_response(session, "", ok, now)
          IN /\ ServiceFits(r.s)
             /\ session' = r.s
             /\ lastOp' = Op("get_next_response", r.ret)
    /\ UNCHANGED <<now, advances, stable, loop>>
    /\ UNCHANGED dialogueVars

\* DebateService.pause_debate / resume_debate (the /pause and /resume
\* commands of the debate loop)
SvcPauseDebate ==
    /\ session.status # "preparing"
    /\ session' = pause_debate(session)
    /\ lastOp' = Op("pause_debate", "None")
    /\ UNCHANGED <<now, advances, stable, loop>>
    /\ UNCHANGED dialogueVars

SvcResumeDebate ==
    /\ session.status # "preparing"
    /\ session' = resume_debate(session, now)
    /\ lastOp' = Op("resume_debate", "None")
    /\ UNCHANGED <<now, advances, stable, loop>>
    /\ UNCHANGED dialogueVars

ServiceNext ==
    \/ SvcStartDebate
    \/ SvcGetNextResponse
    \/ SvcPauseDebate
    \/ SvcResumeDebate

SpecService == ServiceInit /\ [][ServiceNext]_vars

\* ---- SpecServiceFair: the debate loop left to run (console_ui 261-307)
\* Participants of pairwise distinct names; the loop calls
\* get_next_response while the status is ACTIVE, and every call returns
\* (each generator catches the failures of the backend), so the loop takes
\* its next step whenever one is possible: weak fairness on the two calls.
FairMaxLog(s) == Len(s.participants) * s.max_turns_per_participant + 2

FairInit ==
    /\ now = 1
    /\ NoDialogues
    /\ \E types \in ScenarioCasts, m \in 1 .. MaxScenarioTurns :
          session = create_debate(types, m, now - 1)
    /\ lastOp = Op("create_debate", "None")
    /\ advances = 0
    /\ stable = TRUE
    /\ loop = "menu"

FairStartDebate ==
    /\ session.status = "preparing"
    /\ \E oks \in [1 .. Len(session.participants) -> BOOLEAN] :
          LET r == DebateService_start_debate(session, oks, now)
          IN /\ session' = r.s
             /\ lastOp' = Op("DebateService.start_debate", r.exc)
    /\ UNCHANGED <<now, advances, stable, loop>>
    /\ UNCHANGED dialogueVars

FairGetNextResponse ==
    /\ session.status = "active"
    /\ \E ok \in BOOLEAN :
          LET r == get_next_response(session, "", ok, now)
          IN /\ Len(r.s.messages) <= FairMaxLog(session)
             /\ session' = r.s
             /\ lastOp' = Op("get_next_response", r.ret)
    /\ advances' = advances + 1
    /\ UNCHANGED <<now, stable, loop>>
    /\ UNCHANGED dialogueVars

FairNext ==
    \/ FairStartDebate
    \/ FairGetNextResponse

SpecServiceFair ==
    /\ FairInit
    /\ [][FairNext]_vars
    /\ WF_vars(FairStartDebate)
    /\ WF_vars(FairGetNextResponse)

\* ------------- SpecDialogue: one dialogue, DialogueService and the clock
\* the last call: its name, its integer arguments and results (as tuples),
\* a debate id given as argument, the backend's outcome, a boolean result,
\* the Message returned, the exception raised
DOp(name, arg, ret) ==
    [op |-> name, arg |-> arg, ret |-> ret, sid |-> "",
     ok |-> FALSE, val |-> FALSE, msg |-> None, exc |-> "None"]

TimeoutChoices == 0 .. session_timeout

\* heap with the session at ref replaced
HeapPut(heap, ref, s) == [heap EXCEPT ![ref] = s]

DialogueInit ==
    /\ now = 0
    /\ session = DebateSession(now, 1)
    /\ advances = 0
    /\ stable = TRUE
    /\ loop = "menu"
    /\ dialogues = <<>>
    /\ dialogue_sessions = {}
    /\ debate_sessions = {}
    /\ files = NoFiles
    /\ lastOp = DOp("DialogueService", <<>>, <<>>)

\* the wall clock moves on between two calls
DlgTick ==
    /\ now < MaxClock
    /\ now' = now + 1
    /\ lastOp' = DOp("tick", <<>>, <<>>)
    /\ UNCHANGED <<debateVars, dialogueVars>>

\* DialogueService.start_dialogue: a new session with a fresh id
DlgStartDialogue ==
    /\ Len(dialogues) = 0
    /\ \E pt \in Cast :
          LET id == Len(dialogues) + 1
          IN /\ dialogues' = Append(dialogues, start_dialogue(pt, id, now))
             /\ lastOp' = DOp("start_dialogue", <<>>, <<id>>)
    /\ UNCHANGED <<debateVars, debate_sessions, now, dialogue_sessions, files>>

DlgSendMessage ==
    /\ \E ref \in 1 .. Len(dialogues), ok \in BOOLEAN :
          LET r == send_message(dialogues[ref], "asked", ok, now)
          IN /\ Len(r.s.messages) <= MaxDialogueLog
             /\ dialogues' = HeapPut(dialogues, ref, r.s)
             /\ lastOp' = [DOp("send_message", <<ref>>, <<>>)
                           EXCEPT !.ok = ok, !.msg = r.ret, !.exc = r.exc]
    /\ UNCHANGED <<debateVars, debate_sessions, now, dialogue_sessions, files>>

DlgIsExpired ==
    /\ \E ref \in 1 .. Len(dialogues), timeout \in TimeoutChoices :
          lastOp' = [DOp("is_expired", <<ref, timeout>>, <<>>)
                     EXCEPT !.val = is_expired(dialogues[ref], timeout, now)]
    /\ UNCHANGED <<debateVars, now, dialogueVars>>

DialogueNext ==
    \/ DlgTick
    \/ DlgStartDialogue
    \/ DlgSendMessage
    \/ DlgIsExpired

SpecDialogue == DialogueInit /\ [][DialogueNext]_vars

\* ---------------- SpecManager: the SessionManager registry and the clock
SessionIds == 1 .. MaxSessions

ManagerInit ==
    /\ now = 0
    /\ session = DebateSession(now, 1)
    /\ advances = 0
    /\ stable = TRUE
    /\ loop = "menu"
    /\ dialogues = <<>>
    /\ dialogue_sessions = {}
    /\ debate_sessions = {}
    /\ files = NoFiles
    /\ lastOp = DOp("SessionManager", <<>>, <<>>)

MgrTick ==
    /\ now < MaxClock
    /\ now' = now + 1
    /\ lastOp' = DOp("tick", <<>>, <<>>)
    /\ UNCHANGED <<debateVars, dialogueVars>>

\* console_ui 133-134: start_dialogue, then add_dialogue_session
MgrStartDialogue ==
    /\ Len(dialogues) < MaxSessions
    /\ LET id == Len(dialogues) + 1
           heap == Append(dialogues, start_dialogue("socrates", id, now))
           r == add_dialogue_session(dialogue_sessions, heap, id)
       IN /\ dialogues' = heap
          /\ dialogue_sessions' = r.registry
          /\ lastOp' = DOp("add_dialogue_session", <<id>>, <<r.ret>>)
    /\ UNCHANGED <<debateVars, debate_sessions, now, files>>

\* a message of the user in a dialogue that has only its welcome message
MgrAddUserMessage ==
    /\ \E ref \in 1 .. Len(dialogues) :
          /\ Len(dialogues[ref].messages) = 1
          /\ dialogues' = HeapPut(dialogues, ref,
                Dialogue_add_user_message(dialogues[ref], "asked", {}, now))
          /\ lastOp' = DOp("add_user_message", <<ref>>, <<>>)
    /\ UNCHANGED <<debateVars, debate_sessions, now, dialogue_sessions, files>>

MgrGetDialogueSession ==
    /\ \E id \in SessionIds :
          LET r == get_dialogue_session(dialogue_sessions, dialogues, id, now)
          IN /\ dialogue_sessions' = r.registry
             /\ lastOp' = DOp("get_dialogue_session", <<id>>, r.ret)
    /\ UNCHANGED <<debateVars, debate_sessions, now, dialogues, files>>

MgrRemoveDialogueSession ==
    /\ \E id \in SessionIds :
          LET r == remove_dialogue_session(dialogue_sessions, id)
          IN /\ dialogue_sessions' = r.registry
             /\ lastOp' = [DOp("remove_dialogue_session", <<id>>, <<>>)
                           EXCEPT !.val = r.ret]
    /\ UNCHANGED <<debateVars, debate_sessions, now, dialogues, files>>

MgrCleanupExpiredSessions ==
    /\ LET r == cleanup_expired_sessions(dialogue_sessions, dialogues, now)
       IN /\ dialogue_sessions' = r.registry
          /\ lastOp' = DOp("cleanup_expired_sessions", <<>>, <<r.ret>>)
    /\ UNCHANGED <<debateVars, debate_sessions, now, dialogues, files>>

ManagerNext ==
    \/ MgrTick
    \/ MgrStartDialogue
    \/ MgrAddUserMessage
    \/ MgrGetDialogueSession
    \/ MgrRemoveDialogueSession
    \/ MgrCleanupExpiredSessions

SpecManager == ManagerInit /\ [][ManagerNext]_vars

\* ------- SpecDirectory: dialogues ended, paused, resumed and listed
\* a session is ended or paused while its log holds the welcome message
\* only, so at most once
DirectoryInit ==
    /\ now = 0
    /\ session = DebateSession(now, 1)
    /\ advances = 0
    /\ stable = TRUE
    /\ loop = "menu"
    /\ dialogues = <<>>
    /\ dialogue_sessions = {}
    /\ debate_sessions = {}
    /\ files = NoFiles
    /\ lastOp = DOp("SessionManager", <<>>, <<>>)

DirTick ==
    /\ now < MaxClock
    /\ now' = now + 1
    /\ lastOp' = DOp("tick", <<>>, <<>>)
    /\ UNCHANGED <<debateVars, dialogueVars>>

\* console_ui 133-134: start_dialogue, then add_dialogue_session
DirStartDialogue ==
    /\ Len(dialogues) < MaxSessions
    /\ LET id == Len(dialogues) + 1
           heap == Append(dialogues, start_dialogue("socrates", id, now))
           r == add_dialogue_session(dialogue_sessions, heap, id)
       IN /\ dialogues' = heap
          /\ dialogue_sessions' = r.registry
          /\ lastOp' = DOp("add_dialogue_session", <<id>>, <<r.ret>>)
    /\ UNCHANGED <<debateVars, debate_sessions, now, files>>

DirEndDialogueSession ==
    /\ \E id \in 1 .. Len(dialogues) :
          LET r == end_dialogue_session(dialogue_sessions, dialogues, id, now)
          IN /\ Len(dialogues[id].messages) = 1
             /\ dialogues' = r.heap
             /\ dialogue_sessions' = r.registry
             /\ lastOp' = [DOp("end_dialogue_session", <<id>>, <<>>)
                           EXCEPT !.val = r.ret]
    /\ UNCHANGED <<debateVars, debate_sessions, now, files>>

DirPauseDialogueSession ==
    /\ \E id \in 1 .. Len(dialogues) :
          LET r == pause_dialogue_session(dialogue_sessions, dialogues,
                                          id, now)
          IN /\ Len(dialogues[id].messages) = 1
             /\ dialogues' = r.heap
             /\ dialogue_sessions' = r.registry
             /\ lastOp' = [DOp("pause_dialogue_session", <<id>>, <<>>)
                           EXCEPT !.val = r.ret]
    /\ UNCHANGED <<debateVars, debate_sessions, now, files>>

DirGetDialogueSession ==
    /\ \E id \in 1 .. Len(dialogues) :
          LET r == get_dialogue_session(dialogue_sessions, dialogues, id, now)
          IN /\ dialogue_sessions' = r.registry
             /\ lastOp' = DOp("get_dialogue_session", <<id>>, r.ret)
    /\ UNCHANGED <<debateVars, debate_sessions, now, dialogues, files>>

DirGetActiveDialogueSessions ==
    /\ LET r == get_active_dialogue_sessions(dialogue_sessions, dialogues,
                                             now)
       IN /\ dialogue_sessions' = r.registry
          /\ lastOp' = DOp("get_active_dialogue_sessions", <<>>, r.ret)
    /\ UNCHANGED <<debateVars, debate_sessions, now, dialogues, files>>

DirCleanupExpiredSessions ==
    /\ LET r == cleanup_expired_sessions(dialogue_sessions, dialogues, now)
       IN /\ dialogue_sessions' = r.registry
          /\ lastOp' = DOp("cleanup_expired_sessions", <<>>, <<r.ret>>)
    /\ UNCHANGED <<debateVars, debate_sessions, now, dialogues, files>>

DirectoryNext ==
    \/ DirTick
    \/ DirStartDialogue
    \/ DirEndDialogueSession
    \/ DirPauseDialogueSession
    \/ DirGetDialogueSession
    \/ DirGetActiveDialogueSessions
    \/ DirCleanupExpiredSessions

SpecDirectory == DirectoryInit /\ [][DirectoryNext]_vars

\* ---------- SpecStore: sessions saved to and loaded from SessionService
\* The two directories are disjoint and no call reads both kinds of
\* session: debates are explored with no dialogue created, dialogues with
\* the debate left as constructed and never saved.
NoDebateYet == session.status = "preparing" /\ files.debates = {}
NoDialogueYet == dialogues = <<>> /\ files.dialogues = {}

StoreMaxLog == MaxParticipants * MaxTurns + 2
StoreDialogueLog == max_history_length * 2 + 1

StoreInit ==
    /\ now = 1
    /\ \E types \in ServiceCasts, m \in MaxTurnsChoices :
          session = create_debate(types, m, now - 1)
    /\ advances = 0
    /\ stable = TRUE
    /\ loop = "menu"
    /\ dialogues = <<>>
    /\ dialogue_sessions = {}
    /\ debate_sessions = {}
    /\ files = NoFiles
    /\ lastOp = DOp("SessionService", <<>>, <<>>)

StoStartDebate ==
    /\ NoDialogueYet
    /\ session.status = "preparing"
    /\ \E oks \in [1 .. Len(session.participants) -> BOOLEAN] :
          session' = DebateService_start_debate(session, oks, now).s
    /\ lastOp' = DOp("DebateService.start_debate", <<>>, <<>>)
    /\ UNCHANGED <<now, advances, stable, loop, dialogueVars>>

StoGetNextResponse ==
    /\ session.status = "active"
    /\ \E ok \in BOOLEAN :
          LET r == get_next_response(session, "", ok, now)
          IN /\ Len(r.s.messages) <= StoreMaxLog
             /\ session' = r.s
    /\ lastOp' = DOp("get_next_response", <<>>, <<>>)
    /\ UNCHANGED <<now, advances, stable, loop, dialogueVars>>

StoPauseResume ==
    /\ session.status \in {"active", "paused"}
    /\ session' = IF session.status = "active"
                  THEN pause_debate(session)
                  ELSE resume_debate(session, now)
    /\ lastOp' = DOp("pause_resume", <<>>, <<>>)
    /\ UNCHANGED <<now, advances, stable, loop, dialogueVars>>

\* auto_save_session of a debate (console_ui 250, 294, 301)
StoSaveDebate ==
    /\ NoDialogueYet
    /\ LET r == save_debate_session(files, session, now)
       IN files' = r.files
    /\ lastOp' = DOp("save_debate_session", <<>>, <<>>)
    /\ UNCHANGED <<debateVars, debate_sessions, now,
                   dialogues, dialogue_sessions>>

\* the debate loaded takes the place of the current one (console_ui 549)
StoLoadDebate ==
    /\ LET r == load_debate_session(files, session.id, now)
       IN /\ r.exc = "None"
          /\ session' = r.s[1]
          /\ lastOp' = DOp("load_debate_session", <<>>, <<>>)
    /\ UNCHANGED <<now, advances, stable, loop, dialogueVars>>

StoStartDialogue ==
    /\ NoDebateYet
    /\ Len(dialogues) = 0
    /\ \E pt \in Cast :
          LET id == Len(dialogues) + 1
              heap == Append(dialogues, start_dialogue(pt, id, now))
          IN /\ dialogues' = heap
             /\ dialogue_sessions'
                   = add_dialogue_session(dialogue_sessions, heap, id).registry
             /\ lastOp' = DOp("start_dialogue", <<>>, <<id>>)
    /\ UNCHANGED <<debateVars, debate_sessions, now, files>>

\* the calls of the dialogue loop act on the current session, the one
\* started or loaded last
StoSendMessage ==
    /\ Len(dialogues) > 0
    /\ \E ok \in BOOLEAN :
          LET ref == Len(dialogues)
              r == send_message(dialogues[ref], "asked", ok, now)
          IN /\ Len(r.s.messages) <= StoreDialogueLog
             /\ dialogues' = HeapPut(dialogues, ref, r.s)
             /\ lastOp' = [DOp("send_message", <<ref>>, <<>>)
                           EXCEPT !.ok = ok, !.msg = r.ret, !.exc = r.exc]
    /\ UNCHANGED <<debateVars, debate_sessions, now, dialogue_sessions, files>>

\* the /end command: SessionManager.end_dialogue_session (console_ui 201)
StoEndDialogue ==
    /\ Len(dialogues) > 0
    /\ LET ref == Len(dialogues)
           r == end_dialogue_session(dialogue_sessions, dialogues,
                                     dialogues[ref].id, now)
       IN /\ Len(r.heap[ref].messages) <= StoreDialogueLog
          /\ dialogues' = r.heap
          /\ dialogue_sessions' = r.registry
          /\ lastOp' = [DOp("end_dialogue_session", <<ref>>, <<>>)
                        EXCEPT !.val = r.ret]
    /\ UNCHANGED <<debateVars, debate_sessions, now, files>>

StoSaveDialogue ==
    /\ Len(dialogues) > 0
    /\ LET ref == Len(dialogues)
       IN /\ files' = save_dialogue_session(files, dialogues[ref], now).files
          /\ lastOp' = DOp("save_dialogue_session", <<ref>>, <<>>)
    /\ UNCHANGED <<debateVars, debate_sessions, now,
                   dialogues, dialogue_sessions>>

\* a later run of the program resumes the saved dialogue (console_ui
\* 491-516): the session loaded is the only one in memory and the
\* SessionManager of that run has nothing registered
StoLoadDialogue ==
    /\ Len(dialogues) > 0
    /\ LET r == load_dialogue_session(files, dialogues[1].id, now)
       IN /\ r.exc = "None"
          /\ dialogues' = <<r.s[1]>>
          /\ dialogue_sessions' = {}
          /\ lastOp' = DOp("load_dialogue_session", <<1>>, <<>>)
    /\ UNCHANGED <<debateVars, debate_sessions, now, files>>

\* _debate_loop, one pass (console_ui 281-307)
StoDebateLoopTurn ==
    /\ NoDialogueYet
    /\ session.status = "active"
    /\ \E ok \in BOOLEAN, outcome \in SaveOutcomes :
          LET r == debate_loop_turn(session, files, "", ok, outcome, now)
          IN /\ Len(r.s.messages) <= StoreMaxLog
             /\ session' = r.s
             /\ files' = r.files
             /\ lastOp' = [DOp("debate_loop", <<>>, <<>>)
                           EXCEPT !.ok = ok, !.exc = r.warning,
                                  !.val = r.continue, !.sid = r.path]
    /\ UNCHANGED <<now, advances, stable, loop,
                   dialogues, dialogue_sessions, debate_sessions>>

\* _dialogue_loop, one pass (console_ui 169-181)
StoDialogueLoopTurn ==
    /\ Len(dialogues) > 0
    /\ \E ok \in BOOLEAN, outcome \in SaveOutcomes :
          LET ref == Len(dialogues)
              r == dialogue_loop_turn(dialogues[ref], files, "asked", ok,
                                      outcome, now)
          IN /\ Len(r.s.messages) <= StoreDialogueLog
             /\ dialogues' = HeapPut(dialogues, ref, r.s)
             /\ files' = r.files
             /\ lastOp' = [DOp("dialogue_loop", <<ref>>, <<>>)
                           EXCEPT !.ok = ok, !.msg = r.msg,
                                  !.exc = r.warning, !.val = r.continue]
    /\ UNCHANGED <<debateVars, debate_sessions, now, dialogue_sessions>>

\* _dialogue_loop, an input that starts with "/" (console_ui 164-167,
\* 183-207); the logs emptied by /clear are explored in SpecLog
StoreCommands == DialogueCommands \ {"/clear"}

StoDialogueCommand ==
    /\ Len(dialogues) > 0
    /\ \E command \in StoreCommands, outcome \in SaveOutcomes :
          LET ref == Len(dialogues)
              r == handle_dialogue_command(dialogue_sessions, dialogues,
                                           files, ref, command, outcome, now)
          IN /\ Len(r.heap[ref].messages) <= StoreDialogueLog
             /\ dialogues' = r.heap
             /\ dialogue_sessions' = r.registry
             /\ files' = r.files
             /\ lastOp' = [DOp(command, <<ref>>, <<>>)
                           EXCEPT !.exc = r.warning, !.val = r.end]
    /\ UNCHANGED <<debateVars, debate_sessions, now>>

StoreNext ==
    \/ StoStartDebate
    \/ StoGetNextResponse
    \/ StoPauseResume
    \/ StoSaveDebate
    \/ StoLoadDebate
    \/ StoStartDialogue
    \/ StoSendMessage
    \/ StoEndDialogue
    \/ StoSaveDialogue
    \/ StoLoadDialogue
    \/ StoDebateLoopTurn
    \/ StoDialogueLoopTurn
    \/ StoDialogueCommand

SpecStore == StoreInit /\ [][StoreNext]_vars

\* ------ SpecDebateDirectory: a registered debate, a dialogue, the clock
DebateIds == {"debate-uuid", "no-such-id"}

\* console_ui 244-245: create_debate, then add_debate_session
DebateDirectoryInit ==
    /\ now = 0
    /\ \E m \in MaxTurnsChoices :
          session = create_debate(<<"socrates", "kant">>, m, now)
    /\ advances = 0
    /\ stable = TRUE
    /\ loop = "menu"
    /\ dialogues = <<>>
    /\ dialogue_sessions = {}
    /\ debate_sessions = add_debate_session({}, session).registry
    /\ files = NoFiles
    /\ lastOp = [DOp("add_debate_session", <<>>, <<>>)
                 EXCEPT !.sid = session.id]

DebTick ==
    /\ now < MaxClock
    /\ now' = now + 1
    /\ lastOp' = DOp("tick", <<>>, <<>>)
    /\ UNCHANGED <<debateVars, dialogueVars>>

\* the debate runs before the dialogue is started, with a backend that
\* answers (the registry reads neither the log nor the turn counts)
DebStartDebate ==
    /\ dialogues = <<>>
    /\ session.status = "preparing"
    /\ LET oks == [i \in 1 .. Len(session.participants) |-> TRUE]
       IN session' = DebateService_start_debate(session, oks, now).s
    /\ lastOp' = DOp("DebateService.start_debate", <<>>, <<>>)
    /\ UNCHANGED <<now, advances, stable, loop, dialogueVars>>

DebGetNextResponse ==
    /\ dialogues = <<>>
    /\ session.status = "active"
    /\ LET r == get_next_response(session, "", TRUE, now)
       IN /\ Len(r.s.messages) <= StoreMaxLog
          /\ session' = r.s
    /\ lastOp' = DOp("get_next_response", <<>>, <<>>)
    /\ UNCHANGED <<now, advances, stable, loop, dialogueVars>>

DebPauseResume ==
    /\ dialogues = <<>>
    /\ session.status \in {"active", "paused"}
    /\ session' = IF session.status = "active"
                  THEN pause_debate(session)
                  ELSE resume_debate(session, now)
    /\ lastOp' = DOp("pause_resume", <<>>, <<>>)
    /\ UNCHANGED <<now, advances, stable, loop, dialogueVars>>

DebAddDebateSession ==
    /\ LET r == add_debate_session(debate_sessions, session)
       IN /\ debate_sessions' = r.registry
          /\ lastOp' = [DOp("add_debate_session", <<>>, <<>>)
                        EXCEPT !.sid = r.ret]
    /\ UNCHANGED <<debateVars, now, dialogues, dialogue_sessions, files>>

DebGetDebateSession ==
    /\ \E id \in DebateIds :
          lastOp' = [DOp("get_debate_session", <<>>,
                         get_debate_session(debate_sessions, id))
                     EXCEPT !.sid = id]
    /\ UNCHANGED <<debateVars, now, dialogueVars>>

DebRemoveDebateSession ==
    /\ \E id \in DebateIds :
          LET r == remove_debate_session(debate_sessions, id)
          IN /\ debate_sessions' = r.registry
             /\ lastOp' = [DOp("remove_debate_session", <<>>, <<>>)
                           EXCEPT !.sid = id, !.val = r.ret]
    /\ UNCHANGED <<debateVars, now, dialogues, dialogue_sessions, files>>

DebStartDialogue ==
    /\ Len(dialogues) = 0
    /\ LET id == Len(dialogues) + 1
           heap == Append(dialogues, start_dialogue("socrates", id, now))
           r == add_dialogue_session(dialogue_sessions, heap, id)
       IN /\ dialogues' = heap
          /\ dialogue_sessions' = r.registry
          /\ lastOp' = DOp("add_dialogue_session", <<id>>, <<r.ret>>)
    /\ UNCHANGED <<debateVars, debate_sessions, now, files>>

DebGetDialogueSession ==
    /\ \E id \in 1 .. Len(dialogues) :
          LET r == get_dialogue_session(dialogue_sessions, dialogues, id, now)
          IN /\ dialogue_sessions' = r.registry
             /\ lastOp' = DOp("get_dialogue_session", <<id>>, r.ret)
    /\ UNCHANGED <<debateVars, debate_sessions, now, dialogues, files>>

DebRemoveDialogueSession ==
    /\ \E id \in 1 .. Len(dialogues) :
          LET r == remove_dialogue_session(dialogue_sessions, id)
          IN /\ dialogue_sessions' = r.registry
             /\ lastOp' = [DOp("remove_dialogue_session", <<id>>, <<>>)
                           EXCEPT !.val = r.ret]
    /\ UNCHANGED <<debateVars, debate_sessions, now, dialogues, files>>

\* the dialogue is ended or paused once, and resumed once after that
DebEndDialogueSession ==
    /\ \E id \in 1 .. Len(dialogues) :
          LET r == end_dialogue_session(dialogue_sessions, dialogues, id, now)
          IN /\ Len(dialogues[id].messages) = 1
             /\ dialogues' = r.heap
             /\ dialogue_sessions' = r.registry
             /\ lastOp' = [DOp("end_dialogue_session", <<id>>, <<>>)
                           EXCEPT !.val = r.ret]
    /\ UNCHANGED <<debateVars, debate_sessions, now, files>>

DebPauseDialogueSession ==
    /\ \E id \in 1 .. Len(dialogues) :
          LET r == pause_dialogue_session(dialogue_sessions, dialogues, id, now)
          IN /\ Len(dialogues[id].messages) = 1
             /\ dialogues' = r.heap
             /\ dialogue_sessions' = r.registry
             /\ lastOp' = [DOp("pause_dialogue_session", <<id>>, <<>>)
                           EXCEPT !.val = r.ret]
    /\ UNCHANGED <<debateVars, debate_sessions, now, files>>

DebResumeDialogueSession ==
    /\ \E id \in 1 .. Len(dialogues) :
          LET r == resume_dialogue_session(dialogue_sessions, dialogues, id, now)
          IN /\ Len(dialogues[id].messages) = 2
             /\ dialogues' = r.heap
             /\ dialogue_sessions' = r.registry
             /\ lastOp' = [DOp("resume_dialogue_session", <<id>>, <<>>)
                           EXCEPT !.val = r.ret]
    /\ UNCHANGED <<debateVars, debate_sessions, now, files>>

DebGetActiveDialogueSessions ==
    /\ LET r == get_active_dialogue_sessions(dialogue_sessions, dialogues,
                                             now)
       IN /\ dialogue_sessions' = r.registry
          /\ lastOp' = DOp("get_active_dialogue_sessions", <<>>, r.ret)
    /\ UNCHANGED <<debateVars, debate_sessions, now, dialogues, files>>

\* a sweep that also drops the debates idle for longer than the timeout
DebCleanupExpiredSessions_debates_too ==
    /\ LET r == cleanup_expired_sessions(dialogue_sessions, dialogues, now)
       IN /\ dialogue_sessions' = r.registry
          /\ debate_sessions'
                = IF now - session.last_activity > session_timeout
                  THEN {} ELSE debate_sessions
          /\ lastOp' = DOp("cleanup_expired_sessions", <<>>, <<r.ret>>)
    /\ UNCHANGED <<debateVars, now, dialogues, files>>

DebCleanupExpiredSessions ==
    /\ LET r == cleanup_expired_sessions(dialogue_sessions, dialogues, now)
       IN /\ dialogue_sessions' = r.registry
          /\ lastOp' = DOp("cleanup_expired_sessions", <<>>, <<r.ret>>)
    /\ UNCHANGED <<debateVars, debate_sessions, now, dialogues, files>>

DebateDirectoryNext ==
    \/ DebTick
    \/ DebStartDebate
    \/ DebGetNextResponse
    \/ DebPauseResume
    \/ DebAddDebateSession
    \/ DebGetDebateSession
    \/ DebRemoveDebateSession
    \/ DebStartDialogue
    \/ DebGetDialogueSession
    \/ DebRemoveDialogueSession
    \/ DebEndDialogueSession
    \/ DebPauseDialogueSession
    \/ DebResumeDialogueSession
    \/ DebGetActiveDialogueSessions
    \/ DebCleanupExpiredSessions

SpecDebateDirectory == DebateDirectoryInit /\ [][DebateDirectoryNext]_vars

\* ------------- SpecLog: the log methods of a dialogue and of a debate
\* the last call: its name, its integer arguments, include_system, the
\* messages returned, the history returned
LOp(name, arg) ==
    [op |-> name, arg |-> arg, inc |-> FALSE, msgs |-> <<>>, hist |-> <<>>]

LimitChoices == 0 .. MaxDialogueLog + 1

\* the dialogue is explored with the debate's log empty, the debate with
\* no dialogue started
LogInit ==
    /\ now = 0
    /\ session = create_debate(<<"socrates", "kant">>, 1, now)
    /\ advances = 0
    /\ stable = TRUE
    /\ loop = "menu"
    /\ dialogues = <<>>
    /\ dialogue_sessions = {}
    /\ debate_sessions = {}
    /\ files = NoFiles
    /\ lastOp = LOp("DialogueSession", <<>>)

LogTick ==
    /\ now < MaxClock
    /\ now' = now + 1
    /\ lastOp' = LOp("tick", <<>>)
    /\ UNCHANGED <<debateVars, dialogueVars>>

\* console_ui 133-134: start_dialogue, then add_dialogue_session
LogStartDialogue ==
    /\ Len(dialogues) = 0
    /\ Len(session.messages) = 0
    /\ \E pt \in Cast :
          LET heap == <<start_dialogue(pt, 1, now)>>
          IN /\ dialogues' = heap
             /\ dialogue_sessions'
                   = add_dialogue_session(dialogue_sessions, heap, 1).registry
             /\ lastOp' = LOp("start_dialogue", <<>>)
    /\ UNCHANGED <<debateVars, debate_sessions, now, files>>

LogAddUserMessage ==
    /\ Len(dialogues) = 1
    /\ Len(dialogues[1].messages) < MaxDialogueLog
    /\ dialogues' = <<Dialogue_add_user_message(dialogues[1], "asked", {},
                                                now)>>
    /\ lastOp' = LOp("add_user_message", <<>>)
    /\ UNCHANGED <<debateVars, debate_sessions, now, dialogue_sessions, files>>

LogAddPhilosopherMessage ==
    /\ Len(dialogues) = 1
    /\ Len(dialogues[1].messages) < MaxDialogueLog
    /\ dialogues' = <<Dialogue_add_philosopher_message(dialogues[1], "text",
                                                       {}, now)>>
    /\ lastOp' = LOp("add_philosopher_message", <<>>)
    /\ UNCHANGED <<debateVars, debate_sessions, now, dialogue_sessions, files>>

LogAddSystemMessage ==
    /\ Len(dialogues) = 1
    /\ Len(dialogues[1].messages) < MaxDialogueLog
    /\ dialogues' = <<Dialogue_add_system_message(dialogues[1], "note", {},
                                                  now)>>
    /\ lastOp' = LOp("add_system_message", <<>>)
    /\ UNCHANGED <<debateVars, debate_sessions, now, dialogue_sessions, files>>

\* the /clear command (console_ui 191-192)
LogClearHistory ==
    /\ Len(dialogues) = 1
    /\ dialogues' = <<clear_history(dialogues[1], now)>>
    /\ lastOp' = LOp("clear_history", <<>>)
    /\ UNCHANGED <<debateVars, debate_sessions, now, dialogue_sessions, files>>

LogGetRecentMessages ==
    /\ Len(dialogues) = 1
    /\ \E limit \in LimitChoices :
          lastOp' = [LOp("get_recent_messages", <<limit>>)
                     EXCEPT !.msgs = get_recent_messages(dialogues[1], limit)]
    /\ UNCHANGED <<debateVars, now, dialogueVars>>

LogDialogueGetConversationHistory ==
    /\ Len(dialogues) = 1
    /\ \E include_system \in BOOLEAN :
          lastOp' = [LOp("Dialogue.get_conversation_history", <<>>)
                     EXCEPT !.inc = include_system,
                            !.hist = Dialogue_get_conversation_history(
                                         dialogues[1], include_system)]
    /\ UNCHANGED <<debateVars, now, dialogueVars>>

LogDebateAddMessage ==
    /\ Len(dialogues) = 0
    /\ Len(session.messages) < MaxLog
    /\ \/ session' = add_user_message(session, "asked", {}, now)
       \/ session' = add_system_message(session, "note", {}, now)
       \/ \E name \in SpeakerNames, metadata \in MetadataChoices :
             session' = add_philosopher_message(session, name, "text",
                                                metadata, now)
    /\ lastOp' = LOp("Debate.add_message", <<>>)
    /\ UNCHANGED <<now, advances, stable, loop, dialogueVars>>

LogDebateGetConversationHistory ==
    /\ Len(dialogues) = 0
    /\ \E include_system \in BOOLEAN :
          lastOp' = [LOp("Debate.get_conversation_history", <<>>)
                     EXCEPT !.inc = include_system,
                            !.hist = get_conversation_history(
                                         session, include_system)]
    /\ UNCHANGED <<debateVars, now, dialogueVars>>

LogNext ==
    \/ LogTick
    \/ LogStartDialogue
    \/ LogAddUserMessage
    \/ LogAddPhilosopherMessage
    \/ LogAddSystemMessage
    \/ LogClearHistory
    \/ LogGetRecentMessages
    \/ LogDialogueGetConversationHistory
    \/ LogDebateAddMessage
    \/ LogDebateGetConversationHistory

SpecLog == LogInit /\ [][LogNext]_vars

\* ---- SpecHistory: the histories handed to the backend, for every log
\* the lengths of the texts of a history: short ones, ones that fill the
\* token budget, ones over it
ContentLengths ==
    {3, 4 * truncate_max_tokens, 4 * truncate_max_tokens + 4}

\* the history of a dialogue turn (dialogue_service 66)
HisPrepareConversationHistory ==
    /\ Len(dialogues) = 1
    /\ LET n == Len(last_max_history(
                     Dialogue_get_conversation_history(dialogues[1], FALSE)))
       IN \E lengths \in [1 .. n -> ContentLengths] :
             lastOp' = [LOp("_prepare_conversation_history", <<>>)
                        EXCEPT !.hist = prepare_conversation_history(
                                            dialogues[1], lengths)]
    /\ UNCHANGED <<debateVars, now, dialogueVars>>

\* the history of a debate turn (debate_service 207-210)
HisDebateResponseHistory ==
    /\ Len(dialogues) = 0
    /\ lastOp' = [LOp("_generate_debate_response", <<>>)
                  EXCEPT !.hist = debate_response_history(session)]
    /\ UNCHANGED <<debateVars, now, dialogueVars>>

HistoryNext ==
    \/ LogStartDialogue
    \/ LogAddUserMessage
    \/ LogAddPhilosopherMessage
    \/ LogAddSystemMessage
    \/ LogDebateAddMessage
    \/ HisPrepareConversationHistory
    \/ HisDebateResponseHistory

SpecHistory == LogInit /\ [][HistoryNext]_vars

\* ------- SpecConsole: _start_debate and _debate_loop (console_ui 226-333)
\* create_debate is called without max_turns_per_participant
default_max_turns == 3

\* the selections _select_multiple_philosophers accepts
ConsoleCasts ==
    {types \in SeqsUpTo(PhilosopherType, MaxParticipants) : Len(types) >= 2}

\* the explored logs: up to the log of a debate of two that completes (the
\* opening line, default_max_turns messages each, the closing line)
ConsoleMaxLog == 2 * default_max_turns + 2

\* the last step of the console: the input handled, the response
\* returned, the name displayed with it, the save error caught
COp(name) ==
    [op |-> name, ret |-> "None", path |-> "", shown |-> "",
     warning |-> "None"]

ConsoleInit ==
    /\ now = 1
    /\ \E types \in ConsoleCasts :
          session = create_debate(types, default_max_turns, now - 1)
    /\ advances = 0
    /\ stable = TRUE
    /\ loop = "menu"
    /\ dialogues = <<>>
    /\ dialogue_sessions = {}
    /\ debate_sessions = {}
    /\ files = NoFiles
    /\ lastOp = COp("create_debate")

\* console_ui 245-256: the debate is registered and saved, then started,
\* and _debate_loop is entered
ConStartDebate ==
    /\ loop = "menu"
    /\ \E outcome \in SaveOutcomes,
          oks \in [1 .. Len(session.participants) -> BOOLEAN] :
          LET sv == auto_save_debate(files, session, outcome, now)
              r == DebateService_start_debate(session, oks, now)
          IN /\ debate_sessions'
                   = add_debate_session(debate_sessions, session).registry
             /\ files' = sv.files
             /\ session' = r.s
             /\ loop' = IF r.exc = "None"
                        THEN debate_loop_condition(r.s) ELSE "returned"
             /\ lastOp' = [COp("start_debate") EXCEPT !.warning = sv.exc]
    /\ UNCHANGED <<now, advances, stable, dialogues, dialogue_sessions>>

\* an input that is no command (console_ui 281-307)
ConTurn ==
    /\ loop = "input"
    /\ \E ok \in BOOLEAN, outcome \in SaveOutcomes :
          LET r == debate_loop_turn(session, files, "", ok, outcome, now)
          IN /\ Len(r.s.messages) <= ConsoleMaxLog
             /\ session' = r.s
             /\ files' = r.files
             /\ loop' = IF r.continue THEN "input" ELSE "returned"
             /\ lastOp' = [COp("turn") EXCEPT !.ret = r.ret,
                              !.path = r.path, !.shown = r.shown,
                              !.warning = r.warning]
    /\ UNCHANGED <<now, advances, stable,
                   dialogues, dialogue_sessions, debate_sessions>>

\* an input that starts with "/" (console_ui 276-279, 309-333)
ConCommand ==
    /\ loop = "input"
    /\ \E command \in DebateCommands, outcome \in SaveOutcomes :
          LET r == handle_debate_command(session, files, command,
                                         outcome, now)
          IN /\ session' = r.s
             /\ files' = r.files
             /\ loop' = IF r.end THEN "returned"
                        ELSE debate_loop_condition(r.s)
             /\ lastOp' = [COp(command) EXCEPT !.warning = r.warning]
    /\ UNCHANGED <<now, advances, stable,
                   dialogues, dialogue_sessions, debate_sessions>>

ConsoleNext ==
    \/ ConStartDebate
    \/ ConTurn
    \/ ConCommand

SpecConsole == ConsoleInit /\ [][ConsoleNext]_vars

\* ----------------------------------------------------------------- claims
IsPrefix(a, b) ==
    Len(a) <= Len(b) /\ SubSeq(b, 1, Len(a)) = a

AllReachedMax(s) ==
    \A i \in 1 .. Len(s.participants) :
        s.participants[i].turn_count >= s.max_turns_per_participant

\* index of the first participant of that name in list order, 0 when none
FirstNamed(s, name) ==
    LET named == {i \in 1 .. Len(s.participants) : s.participants[i].name = name}
    IN IF named = {} THEN 0
       ELSE CHOOSE i \in named : \A j \in named : i <= j

\* C1: with P >= 1 participants and no participant added since the first
\* advance, after N calls of advance_speaker on a fresh session the index
\* of the current speaker is N mod P.
C1_RoundRobin ==
    (stable /\ Len(session.participants) >= 1) =>
        session.current_speaker_index = advances % Len(session.participants)

C1_Witness ==
    /\ stable
    /\ advances = 3
    /\ Len(session.participants) = 2
    /\ session.current_speaker_index = 1

\* C2: start_debate with fewer than 2 participants raises (ValueError from
\* the session, DebateServiceError through the service) and leaves every
\* field of the session as it was.
C2_StartRejected ==
    [][(/\ lastOp'.op \in {"start_debate", "DebateService.start_debate"}
        /\ Len(session.participants) < 2)
       => (/\ lastOp'.ret = (IF lastOp'.op = "start_debate"
                             THEN "ValueError" ELSE "DebateServiceError")
           /\ session' = session)]_vars

C2_Witness ==
    /\ lastOp = Op("DebateService.start_debate", "DebateServiceError")
    /\ Len(session.participants) = 1
    /\ session.status = "preparing"
    /\ session.last_activity # now

\* C3: start_debate with at least 2 participants returns normally, sets
\* status ACTIVE and started_at, appends exactly one message, of type
\* system, and leaves participants and current_speaker_index alone.
C3_StartAccepted ==
    [][(/\ lastOp'.op = "start_debate"
        /\ Len(session.participants) >= 2)
       => (LET n == Len(session.messages)
           IN /\ lastOp'.ret = "None"
              /\ session'.status = "active"
              /\ session'.started_at = Some(now)
              /\ Len(session'.messages) = n + 1
              /\ SubSeq(session'.messages, 1, n) = session.messages
              /\ session'.messages[n + 1].type = "system"
              /\ session'.participants = session.participants
              /\ session'.current_speaker_index
                    = session.current_speaker_index)]_vars

C3_Witness ==
    /\ lastOp = Op("start_debate", "None")
    /\ Len(session.participants) >= 2
    /\ session.status = "active"
    /\ session.messages[Len(session.messages)].content = "begun"

\* C4: the status of a debate changes only along preparing->active,
\* active->paused, paused->active, active->completed, preparing->completed
\* and paused->completed.
AllowedEdges ==
    {<<"preparing", "active">>, <<"active", "paused">>,
     <<"paused", "active">>, <<"active", "completed">>,
     <<"preparing", "completed">>, <<"paused", "completed">>}

C4_OnlyAllowedEdges ==
    [][\/ session'.status = session.status
       \/ <<session.status, session'.status>> \in AllowedEdges]_vars

\* C5: COMPLETED is terminal: a session whose status is COMPLETED keeps
\* that status under every call.
C5_CompletedIsTerminal ==
    [][session.status = "completed" => session'.status = "completed"]_vars

\* C6: whenever the participant list is not empty, current_speaker_index
\* is a valid index into it.
C6_IndexInRange ==
    Len(session.participants) > 0 =>
        /\ 0 <= session.current_speaker_index
        /\ session.current_speaker_index < Len(session.participants)

C6_Witness ==
    /\ lastOp.op = "advance_speaker"
    /\ Len(session.participants) = 2
    /\ session.current_speaker_index = 0

\* C7: the message log is append-only: under every call the log before is
\* a prefix of the log after.
C7_LogAppendOnly ==
    [][IsPrefix(session.messages, session'.messages)]_vars

C7_Witness ==
    /\ lastOp = Op("get_next_response", "most_intriguing")
    /\ Len(session.messages) >= 2
    /\ session.messages[Len(session.messages)].content = "most_intriguing"

\* C8: is_debate_complete returns true exactly when the status is ACTIVE
\* and every participant's turn_count has reached
\* max_turns_per_participant, and it changes no field of the session.
C8_IsDebateComplete ==
    [][lastOp'.op = "is_debate_complete"
       => (/\ (lastOp'.ret = "True")
                <=> (session.status = "active" /\ AllReachedMax(session))
           /\ lastOp'.ret \in {"True", "False"}
           /\ session' = session)]_vars

C8_Witness ==
    /\ lastOp = Op("is_debate_complete", "False")
    /\ session.status = "paused"
    /\ Len(session.participants) = 2
    /\ AllReachedMax(session)

\* C10: add_philosopher_message(name, content) appends exactly one message,
\* of type philosopher with metadata speaker = name, adds 1 to the
\* turn_count of the first participant of that name and to no other, and
\* leaves status and current_speaker_index alone; with no participant of
\* that name the message is appended and no turn_count changes.
C10_AddPhilosopherMessage ==
    [][lastOp'.op = "add_philosopher_message"
       => (LET name == lastOp'.ret
               n == Len(session.messages)
               k == FirstNamed(session, name)
           IN /\ Len(session'.messages) = n + 1
              /\ SubSeq(session'.messages, 1, n) = session.messages
              /\ session'.messages[n + 1].type = "philosopher"
              /\ DictGet(session'.messages[n + 1].metadata,
                         "speaker", "absent") = name
              /\ Len(session'.participants) = Len(session.participants)
              /\ \A i \in 1 .. Len(session.participants) :
                    /\ session'.participants[i].name
                          = session.participants[i].name
                    /\ session'.participants[i].turn_count
                          = session.participants[i].turn_count
                            + (IF i = k THEN 1 ELSE 0)
              /\ session'.status = session.status
              /\ session'.current_speaker_index
                    = session.current_speaker_index)]_vars

C10_Witness ==
    /\ lastOp.op = "add_philosopher_message"
    /\ Len(session.participants) = 2
    /\ session.participants[1].name = lastOp.ret
    /\ session.participants[2].name = lastOp.ret
    /\ session.participants[1].turn_count = 1
    /\ session.participants[2].turn_count = 0

\* C9: in a started debate of P >= 2 participants with distinct names and
\* max_turns_per_participant = M >= 1, driven by the step (message of the
\* current speaker; advance_speaker), is_debate_complete is true exactly
\* once P*M steps are done; every turn_count is then M, and complete_debate
\* gives status COMPLETED with one closing system message added.
C9_ScenarioCompletes ==
    LET P == Len(session.participants)
        M == session.max_turns_per_participant
        n == Len(session.messages)
    IN /\ session.status \in {"active", "completed"}
       /\ session.status = "active" =>
             (is_debate_complete(session) <=> advances = P * M)
       /\ advances = P * M =>
             \A i \in 1 .. P : session.participants[i].turn_count = M
       /\ session.status = "completed" =>
             /\ advances = P * M
             /\ n = P * M + 2
             /\ session.messages[n].type = "system"
             /\ session.messages[n].content = "concluded"
             /\ \A i \in 1 .. n - 1 : session.messages[i].content # "concluded"

C9_Witness ==
    /\ session.status = "completed"
    /\ Len(session.participants) = 3
    /\ session.max_turns_per_participant = 2
    /\ advances = 6

\* C11: in a debate run through the service (create_debate with at least
\* 2 philosophers, the same one possibly more than once; start_debate;
\* get_next_response, pause and resume in any order) no participant's
\* turn_count exceeds max_turns_per_participant.
C11_TurnsBounded ==
    \A i \in 1 .. Len(session.participants) :
        session.participants[i].turn_count
            <= session.max_turns_per_participant

\* C12: a debate of P >= 2 participants of pairwise distinct names and
\* M >= 1 turns each, started through DebateService.start_debate and then
\* driven by get_next_response alone, reaches status COMPLETED, whatever
\* the backend does at each call.
C12_DebateCompletes ==
    <>(session.status = "completed")

C12_Witness ==
    /\ session.status = "completed"
    /\ session.max_turns_per_participant >= 2
    /\ lastOp = Op("get_next_response", "has_concluded")
    /\ \A i \in 2 .. Len(session.messages) - 1 :
          session.messages[i].content \in {"look_forward", "most_intriguing"}

\* C13: when the backend fails during get_next_response on an ACTIVE debate
\* that is not complete, the call returns (the fallback line), appends
\* exactly one philosopher message attributed to the current speaker, adds
\* 1 to the current speaker's turn_count and moves current_speaker_index to
\* the next participant: the session changes as for a successful call.
C13_FailureTakesTurn ==
    [][(/\ lastOp'.op = "get_next_response"
        /\ lastOp'.ret = "most_intriguing")
       => (LET n == Len(session.messages)
               P == Len(session.participants)
               k == session.current_speaker_index + 1
               good == get_next_response(session, "", TRUE, now).s
           IN /\ session.status = "active"
              /\ ~ is_debate_complete(session)
              /\ Len(session'.messages) = n + 1
              /\ SubSeq(session'.messages, 1, n) = session.messages
              /\ session'.messages[n + 1].type = "philosopher"
              /\ DictGet(session'.messages[n + 1].metadata,
                         "speaker", "absent") = session.participants[k].name
              /\ session'.participants[k].turn_count
                    = session.participants[k].turn_count + 1
              /\ session'.current_speaker_index
                    = (session.current_speaker_index + 1) % P
              /\ session'.participants = good.participants
              /\ session'.current_speaker_index = good.current_speaker_index
              /\ session'.status = good.status
              /\ Len(session'.messages) = Len(good.messages))]_vars

\* C15: complete_debate sets status COMPLETED and completed_at, appends
\* exactly one message, of type system, and leaves the participants, their
\* turn_counts and current_speaker_index as they were.
C15_CompleteDebate ==
    [][lastOp'.op = "complete_debate"
       => (LET n == Len(session.messages)
           IN /\ session'.status = "completed"
              /\ session'.completed_at = Some(now)
              /\ Len(session'.messages) = n + 1
              /\ SubSeq(session'.messages, 1, n) = session.messages
              /\ session'.messages[n + 1].type = "system"
              /\ session'.participants = session.participants
              /\ session'.current_speaker_index
                    = session.current_speaker_index)]_vars

C15_Witness ==
    /\ lastOp = Op("complete_debate", "None")
    /\ session.status = "completed"
    /\ session.completed_at = Some(now)
    /\ session.current_speaker_index = 1
    /\ session.participants[1].turn_count = 1
    /\ session.messages[Len(session.messages)].content = "concluded"

\* C16: pause_debate sets status PAUSED from every status and changes no
\* other field; resume_debate sets status ACTIVE when the status is PAUSED
\* and from every other status leaves the whole session unchanged.
C16_PauseResume ==
    [][/\ lastOp'.op = "pause_debate"
          => session' = [session EXCEPT !.status = "paused"]
       /\ lastOp'.op = "resume_debate"
          => IF session.status = "paused"
             THEN session'.status = "active"
             ELSE session' = session]_vars

C16_Witness ==
    /\ lastOp = Op("pause_debate", "None")
    /\ session.status = "paused"
    /\ session.started_at = None
    /\ Len(session.messages) > 0

\* C14: when the backend fails during DialogueService.send_message the
\* call returns normally: the log before the call is kept, the user's
\* message follows it, then exactly one philosopher message with the
\* apology text, which is the message returned.
C14_SendMessageFailure ==
    [][(/\ lastOp'.op = "send_message"
        /\ ~ lastOp'.ok)
       => (LET ref == lastOp'.arg[1]
               before == dialogues[ref].messages
               after == dialogues'[ref].messages
               n == Len(before)
           IN /\ lastOp'.exc = "None"
              /\ Len(after) = n + 2
              /\ SubSeq(after, 1, n) = before
              /\ after[n + 1] = Message("user", "asked", {})
              /\ after[n + 2] = Message("philosopher", "apology", {})
              /\ lastOp'.msg = Some(after[n + 2]))]_vars

C14_Witness ==
    /\ lastOp.op = "send_message"
    /\ ~ lastOp.ok
    /\ Len(dialogues[1].messages) = 4
    /\ dialogues[1].messages[2].content = "text"
    /\ dialogues[1].messages[4].content = "apology"

\* C18: is_expired(timeout) is true exactly when the time elapsed since
\* last_activity is greater than timeout (false at exactly timeout); the
\* call changes nothing; and once true it stays true at every later time
\* as long as last_activity is not updated.
C18_IsExpired ==
    [][/\ lastOp'.op = "is_expired"
          => (LET s == dialogues[lastOp'.arg[1]]
                  timeout == lastOp'.arg[2]
                  elapsed == now - s.last_activity
              IN /\ lastOp'.val <=> elapsed > timeout
                 /\ elapsed = timeout => ~ lastOp'.val
                 /\ UNCHANGED <<dialogues, dialogue_sessions, debate_sessions,
                              files, now>>)
       /\ \A ref \in 1 .. Len(dialogues), timeout \in TimeoutChoices :
             (/\ is_expired(dialogues[ref], timeout, now)
              /\ dialogues'[ref].last_activity = dialogues[ref].last_activity)
             => is_expired(dialogues'[ref], timeout, now')]_vars

C18_Witness ==
    /\ lastOp.op = "is_expired"
    /\ ~ lastOp.val
    /\ lastOp.arg[2] > 0
    /\ now - dialogues[lastOp.arg[1]].last_activity = lastOp.arg[2]

\* C19: get_dialogue_session(id) returns the registered session when it is
\* not expired and changes nothing; when the registered session is expired
\* it removes it from the registry and returns not-found, and the id stays
\* unregistered, so every later lookup is not-found; an unregistered id
\* gives not-found with no change.
C19_GetDialogueSession ==
    [][/\ lastOp'.op = "get_dialogue_session"
          => (LET id == lastOp'.arg[1]
                  ref == DictGet(dialogue_sessions, id, None)
              IN /\ dialogues' = dialogues
                 /\ IF ~ DictHas(dialogue_sessions, id)
                    THEN /\ lastOp'.ret = None
                         /\ dialogue_sessions' = dialogue_sessions
                    ELSE IF now - dialogues[ref].last_activity
                               > session_timeout
                    THEN /\ lastOp'.ret = None
                         /\ ~ DictHas(dialogue_sessions', id)
                         /\ dialogue_sessions'
                               = dialogue_sessions \ {<<id, ref>>}
                    ELSE /\ lastOp'.ret = Some(ref)
                         /\ dialogues[ref].id = id
                         /\ dialogue_sessions' = dialogue_sessions)
       /\ \A id \in 1 .. Len(dialogues) :
             ~ DictHas(dialogue_sessions, id)
                => ~ DictHas(dialogue_sessions', id)]_vars

C19_Witness ==
    /\ lastOp.op = "get_dialogue_session"
    /\ lastOp.arg = <<1>>
    /\ lastOp.ret = None
    /\ Len(dialogues) = 2
    /\ now - dialogues[1].last_activity > session_timeout
    /\ dialogue_sessions = {<<2, 2>>}

\* C20: cleanup_expired_sessions removes from the dialogue registry exactly
\* the sessions expired at the time of the call: afterwards no registered
\* session is expired, every non-expired one is still registered and
\* unchanged, and the count returned is the number of sessions removed.
C20_CleanupExpiredSessions ==
    [][lastOp'.op = "cleanup_expired_sessions"
       => (LET Expired(p) ==
                   now - dialogues[p[2]].last_activity > session_timeout
               removed == dialogue_sessions \ dialogue_sessions'
           IN /\ dialogue_sessions' \subseteq dialogue_sessions
              /\ \A p \in dialogue_sessions :
                    Expired(p) <=> p \notin dialogue_sessions'
              /\ \A p \in dialogue_sessions' : ~ Expired(p)
              /\ dialogues' = dialogues
              /\ now' = now
              /\ lastOp'.ret = <<Cardinality(removed)>>)]_vars

C20_Witness ==
    /\ lastOp.op = "cleanup_expired_sessions"
    /\ lastOp.ret = <<1>>
    /\ Len(dialogues) = 2
    /\ dialogue_sessions = {<<2, 2>>}
    /\ now - dialogues[1].last_activity > session_timeout
    /\ now - dialogues[2].last_activity <= session_timeout

\* C17: loading what save stored for a session gives a session with the
\* same fields: for a DebateSession the id, topic, status,
\* current_speaker_index, max_turns_per_participant, the participants in
\* order with their turn_counts and the messages in order (type, content,
\* speaker); for a DialogueSession the id, philosopher name, is_active and
\* the messages in order.
SameMessages(a, b) ==
    /\ Len(a) = Len(b)
    /\ \A i \in 1 .. Len(a) :
          /\ a[i].type = b[i].type
          /\ a[i].content = b[i].content
          /\ DictGet(a[i].metadata, "speaker", "absent")
                = DictGet(b[i].metadata, "speaker", "absent")

SameDebate(a, b) ==
    /\ a.id = b.id
    /\ a.topic = b.topic
    /\ a.status = b.status
    /\ a.current_speaker_index = b.current_speaker_index
    /\ a.max_turns_per_participant = b.max_turns_per_participant
    /\ Len(a.participants) = Len(b.participants)
    /\ \A i \in 1 .. Len(a.participants) :
          /\ a.participants[i].philosopher_type
                = b.participants[i].philosopher_type
          /\ a.participants[i].name = b.participants[i].name
          /\ a.participants[i].turn_count = b.participants[i].turn_count
    /\ SameMessages(a.messages, b.messages)

SameDialogue(a, b) ==
    /\ a.id = b.id
    /\ a.philosopher_name = b.philosopher_name
    /\ a.is_active = b.is_active
    /\ SameMessages(a.messages, b.messages)

C17_StoreRoundTrip ==
    [][/\ lastOp'.op = "save_debate_session"
          => (LET r == load_debate_session(files', session.id, now)
              IN /\ r.exc = "None"
                 /\ SameDebate(r.s[1], session))
       /\ lastOp'.op = "save_dialogue_session"
          => (LET s == dialogues[lastOp'.arg[1]]
                  r == load_dialogue_session(files', s.id, now)
              IN /\ r.exc = "None"
                 /\ SameDialogue(r.s[1], s))
       /\ lastOp'.op = "load_debate_session"
          => session' = DebateSession_from_dict(
                           DictGet(files.debates, session.id, None), now)
       /\ lastOp'.op = "load_dialogue_session"
          => dialogues'[1] = DialogueSession_from_dict(
                           DictGet(files.dialogues, dialogues[1].id, None),
                           now)]_vars

C17_Witness ==
    /\ lastOp.op = "load_debate_session"
    /\ session.status = "paused"
    /\ session.started_at = Some(now)
    /\ Len(session.messages) >= 3
    /\ session.participants[2].turn_count = 1

\* the elements of a list
Range(q) == {q[i] : i \in 1 .. Len(q)}

Expired(ref) == now - dialogues[ref].last_activity > session_timeout

\* C21: get_active_dialogue_sessions returns exactly the registered
\* sessions that are active and not expired, each once; after the call no
\* expired session is registered, every non-expired one (inactive ones
\* included) is still registered, and no session object has changed.
C21_GetActiveDialogueSessions ==
    [][lastOp'.op = "get_active_dialogue_sessions"
          => /\ Range(lastOp'.ret)
                   = {p[2] : p \in {q \in dialogue_sessions :
                               /\ dialogues[q[2]].is_active
                               /\ ~ Expired(q[2])}}
             /\ Len(lastOp'.ret) = Cardinality(Range(lastOp'.ret))
             /\ dialogue_sessions'
                   = {p \in dialogue_sessions : ~ Expired(p[2])}
             /\ dialogues' = dialogues]_vars

\* an inactive session that is not expired is left out of the list and
\* stays registered beside the active one returned
C21_Witness ==
    /\ lastOp.op = "get_active_dialogue_sessions"
    /\ lastOp.ret = <<2>>
    /\ dialogue_sessions = {<<1, 1>>, <<2, 2>>}
    /\ ~ dialogues[1].is_active
    /\ ~ Expired(1)
    /\ dialogues[2].is_active

\* C23: a dialogue session is inactive after it was ended or paused by the
\* user, and after it was removed from the registry because it had expired
\* (by get_dialogue_session, get_active_dialogue_sessions or
\* cleanup_expired_sessions, or by the lookup of an end or pause call).
C23_InactiveAfterEndPauseExpiry ==
    [][/\ (/\ lastOp'.op \in {"end_dialogue_session",
                              "pause_dialogue_session"}
           /\ lastOp'.val)
          => ~ dialogues'[lastOp'.arg[1]].is_active
       /\ lastOp'.op \in {"end_dialogue_session", "pause_dialogue_session",
                          "get_dialogue_session",
                          "get_active_dialogue_sessions",
                          "cleanup_expired_sessions"}
          => \A p \in dialogue_sessions \ dialogue_sessions' :
                ~ dialogues'[p[2]].is_active]_vars

\* C22: time never removes a debate from the registry. A registered debate
\* leaves the registry only in a remove_debate_session call for its id; no
\* other call (the dialogue calls, cleanup_expired_sessions, the clock)
\* changes the debate registry unless it is add_debate_session; and
\* get_debate_session returns the debate registered under the id, whatever
\* its status and however long it has been idle.
C22_DebatesNeverExpire ==
    [][/\ \A p \in debate_sessions \ debate_sessions' :
             /\ lastOp'.op = "remove_debate_session"
             /\ lastOp'.sid = p[1]
       /\ lastOp'.op \notin {"add_debate_session", "remove_debate_session"}
             => debate_sessions' = debate_sessions
       /\ lastOp'.op = "remove_debate_session"
             => debate_sessions'
                   = {p \in debate_sessions : p[1] # lastOp'.sid}
       /\ lastOp'.op = "get_debate_session"
             => /\ DictHas(debate_sessions, lastOp'.sid)
                      => /\ lastOp'.ret = Some(1)
                         /\ session'.id = lastOp'.sid
                /\ ~ DictHas(debate_sessions, lastOp'.sid)
                      => lastOp'.ret = None
                /\ session' = session]_vars

\* a completed debate, idle for longer than the timeout that has just
\* evicted a dialogue, is returned
C22_Witness ==
    /\ lastOp.op = "get_debate_session"
    /\ lastOp.ret = Some(1)
    /\ session.status = "completed"
    /\ now - session.last_activity > session_timeout
    /\ Len(dialogues) = 1
    /\ Expired(1)
    /\ dialogue_sessions = {}

\* C24: when the save after a turn fails, the session in memory is exactly
\* what the turn made it (for a dialogue the user's message and the reply
\* or apology are in the log; for a debate the message, the turn count and
\* the speaker index of the turn are kept and the status is still active),
\* no successful save was written, and the loop asks for the next input.
C24_SaveFailureKeepsTurn ==
    [][/\ (/\ lastOp'.op = "dialogue_loop"
           /\ lastOp'.exc = "SessionServiceError")
          => LET ref == lastOp'.arg[1]
                 turn == send_message(dialogues[ref], "asked",
                                      lastOp'.ok, now)
             IN /\ dialogues'[ref] = turn.s
                /\ (\/ ~ lastOp'.ok
                    \/ Len(dialogues[ref].messages) + 2
                          <= max_history_length * 2)
                      => /\ Len(dialogues'[ref].messages)
                               = Len(dialogues[ref].messages) + 2
                         /\ IsPrefix(dialogues[ref].messages,
                                     dialogues'[ref].messages)
                /\ lastOp'.msg = Some(dialogues'[ref].messages[
                                         Len(dialogues'[ref].messages)])
                /\ lastOp'.val
                /\ files'.dialogues
                      \in {files.dialogues,
                           DictPut(files.dialogues, dialogues[ref].id,
                                   Truncated)}
       /\ (/\ lastOp'.op = "debate_loop"
           /\ lastOp'.sid = "turn"
           /\ lastOp'.exc = "SessionServiceError")
          => /\ session' = get_next_response(session, "", lastOp'.ok, now).s
             /\ Len(session'.messages) = Len(session.messages) + 1
             /\ IsPrefix(session.messages, session'.messages)
             /\ session'.current_speaker_index
                   = (session.current_speaker_index + 1)
                        % Len(session.participants)
             /\ \E i \in 1 .. Len(session.participants) :
                   session'.participants[i].turn_count
                      = session.participants[i].turn_count + 1
             /\ session'.status = "active"
             /\ lastOp'.val
             /\ files'.debates
                   \in {files.debates,
                        DictPut(files.debates, session.id, Truncated)}]_vars

\* a dialogue turn whose save failed after an earlier save had succeeded:
\* the log in memory is ahead of the document in the store
C24_Witness ==
    /\ lastOp.op = "dialogue_loop"
    /\ lastOp.exc = "SessionServiceError"
    /\ lastOp.val
    /\ Len(dialogues) = 1
    /\ Len(dialogues[1].messages) = 3
    /\ DictHas(files.dialogues, 1)
    /\ DictGet(files.dialogues, 1, None) # Truncated
    /\ Len(DictGet(files.dialogues, 1, None).messages) = 1

\* what clear_history leaves alone: the identity, the persona, the flag
\* and the registration of the session
ClearHistoryFrame ==
    /\ dialogues'[1].id = dialogues[1].id
    /\ dialogues'[1].philosopher_name = dialogues[1].philosopher_name
    /\ dialogues'[1].created_at = dialogues[1].created_at
    /\ dialogues'[1].is_active = dialogues[1].is_active
    /\ dialogue_sessions' = dialogue_sessions
    /\ DictGet(dialogue_sessions', dialogues[1].id, None) = 1

\* C25: clear_history leaves the log empty and last_activity later than it
\* was before the call; id, persona name and is_active are unchanged and
\* the session stays registered.
C25_ClearHistory ==
    [][lastOp'.op = "clear_history"
          => /\ Len(dialogues'[1].messages) = 0
             /\ dialogues'[1].last_activity > dialogues[1].last_activity
             /\ ClearHistoryFrame]_vars

\* C25 as the code has it: clear_history leaves the log empty and sets
\* last_activity to the time of the call, which is later than the value
\* before exactly when the clock has moved on since the last activity and
\* equal to it otherwise; id, persona name and is_active are unchanged and
\* the session stays registered.
C25_ClearHistorySetsActivity ==
    [][lastOp'.op = "clear_history"
          => /\ Len(dialogues'[1].messages) = 0
             /\ dialogues'[1].last_activity = now
             /\ dialogues'[1].last_activity >= dialogues[1].last_activity
             /\ (dialogues'[1].last_activity > dialogues[1].last_activity)
                   <=> (now > dialogues[1].last_activity)
             /\ ClearHistoryFrame]_vars

\* a history cleared at the clock reading of the last activity: the log is
\* empty and last_activity has the value it had
C25_Witness ==
    /\ lastOp.op = "clear_history"
    /\ Len(dialogues[1].messages) = 0
    /\ dialogues[1].last_activity = now
    /\ dialogues[1].created_at = now
    /\ dialogue_sessions = {<<1, 1>>}

\* C26: for every limit >= 0, get_recent_messages(limit) returns the last
\* min(limit, log length) messages in log order and changes nothing.
C26_GetRecentMessages ==
    [][lastOp'.op = "get_recent_messages"
          => LET log == dialogues[1].messages
                 limit == lastOp'.arg[1]
                 k == IF limit < Len(log) THEN limit ELSE Len(log)
             IN /\ lastOp'.msgs = SubSeq(log, Len(log) - k + 1, Len(log))
                /\ Len(lastOp'.msgs) = k
                /\ dialogues' = dialogues]_vars

\* the positions of the log that a history keeps, in log order
KeptIndices(log, include_system) ==
    SelectSeq([i \in 1 .. Len(log) |-> i],
              LAMBDA i : include_system \/ log[i].type # "system")

\* C28: get_conversation_history gives one entry per message of the log,
\* in log order, without the system messages exactly when include_system
\* is false; the role is user for a message of the user and assistant for
\* any other; the content is the message's content, for a persona message
\* of a debate prefixed with the name of its speaker; nothing is changed.
C28_GetConversationHistory ==
    [][/\ lastOp'.op = "Dialogue.get_conversation_history"
          => LET log == dialogues[1].messages
                 kept == KeptIndices(log, lastOp'.inc)
                 hist == lastOp'.hist
             IN /\ Len(hist) = Len(kept)
                /\ \A j \in 1 .. Len(kept) :
                      /\ hist[j].role = IF log[kept[j]].type = "user"
                                        THEN "user" ELSE "assistant"
                      /\ hist[j].content = <<log[kept[j]].content>>
                /\ dialogues' = dialogues
       /\ lastOp'.op = "Debate.get_conversation_history"
          => LET log == session.messages
                 kept == KeptIndices(log, lastOp'.inc)
                 hist == lastOp'.hist
             IN /\ Len(hist) = Len(kept)
                /\ \A j \in 1 .. Len(kept) :
                      /\ hist[j].role = IF log[kept[j]].type = "user"
                                        THEN "user" ELSE "assistant"
                      /\ IF log[kept[j]].type = "philosopher"
                         THEN /\ Len(hist[j].content) = 4
                              /\ <<"speaker", hist[j].content[2]>>
                                    \in log[kept[j]].metadata
                              /\ hist[j].content
                                    = <<"[", hist[j].content[2], "]: ",
                                        log[kept[j]].content>>
                         ELSE hist[j].content = <<log[kept[j]].content>>
                /\ session' = session]_vars

\* a debate history without the system messages: the note is left out and
\* Kant's message carries his name
C28_Witness ==
    /\ lastOp.op = "Debate.get_conversation_history"
    /\ ~ lastOp.inc
    /\ Len(session.messages) = 2
    /\ session.messages[1].type = "system"
    /\ lastOp.hist = <<[role |-> "assistant",
                        content |-> <<"[", "Immanuel Kant", "]: ",
                                     "text">>]>>

\* C29: add_user_message, add_philosopher_message and add_system_message
\* of a DialogueSession append one message of their type at the end of the
\* log, leave the earlier messages as they were and set last_activity to
\* the current time.
C29_DialogueAddMessage ==
    [][lastOp'.op \in {"add_user_message", "add_philosopher_message",
                       "add_system_message"}
          => LET before == dialogues[1].messages
                 after == dialogues'[1].messages
             IN /\ Len(after) = Len(before) + 1
                /\ SubSeq(after, 1, Len(before)) = before
                /\ after[Len(after)].type
                      = CASE lastOp'.op = "add_user_message" -> "user"
                          [] lastOp'.op = "add_philosopher_message"
                                -> "philosopher"
                          [] lastOp'.op = "add_system_message" -> "system"
                /\ dialogues'[1].last_activity = now
                /\ dialogues'[1]
                      = [dialogues[1] EXCEPT !.messages = after,
                                             !.last_activity = now]]_vars

\* a system message appended to a log of two, later than the creation
C29_Witness ==
    /\ lastOp.op = "add_system_message"
    /\ Len(dialogues[1].messages) = 3
    /\ dialogues[1].messages[3].type = "system"
    /\ dialogues[1].last_activity = now
    /\ now > dialogues[1].created_at

\* C27: the log of a dialogue is append-only: under every call other than
\* clear_history (the add_*_message calls and send_message, whether the
\* backend replies or fails) the log before is a prefix of the log after.
C27_DialogueLogAppendOnly ==
    [][lastOp'.op # "clear_history"
          => \A ref \in 1 .. Len(dialogues) :
                IsPrefix(dialogues[ref].messages,
                         dialogues'[ref].messages)]_vars

\* C30: get_next_response takes a debate from ACTIVE to COMPLETED only in
\* a call that finds every participant's turn_count at or above
\* max_turns_per_participant; that call appends the closing system
\* message and no philosopher message, changes no turn_count and leaves the
\* speaker index where it was; a call on a debate that is not ACTIVE
\* returns nothing and changes nothing.
C30_CompletionByGetNextResponse ==
    [][lastOp'.op = "get_next_response"
          => /\ (session.status = "active" /\ session'.status = "completed")
                => /\ AllReachedMax(session)
                   /\ Len(session'.messages) = Len(session.messages) + 1
                   /\ IsPrefix(session.messages, session'.messages)
                   /\ session'.messages[Len(session'.messages)].type
                         = "system"
                   /\ session'.participants = session.participants
                   /\ session'.current_speaker_index
                         = session.current_speaker_index
             /\ (session.status = "active" /\ session'.status # "completed")
                => session'.status = "active"
             /\ session.status # "active"
                => /\ lastOp'.ret = "None"
                   /\ session' = session]_vars

\* a debate of two turns each, completed by get_next_response after every
\* participant has spoken twice
C30_Witness ==
    /\ lastOp.op = "get_next_response"
    /\ lastOp.ret = "has_concluded"
    /\ session.status = "completed"
    /\ session.completed_at = Some(now)
    /\ Len(session.participants) = 2
    /\ session.max_turns_per_participant = 2
    /\ \A i \in 1 .. 2 : session.participants[i].turn_count = 2

\* participants of pairwise distinct names
DistinctNames(s) ==
    \A i, j \in 1 .. Len(s.participants) :
        i # j => s.participants[i].name # s.participants[j].name

\* C31: DebateService.start_debate on a PREPARING debate (as create_debate
\* made it) with P >= 2 participants of pairwise distinct names appends the
\* opening system message and then exactly one philosopher message per
\* participant, in participant-list order, whether the backend replies or
\* fails for each of them; afterwards every turn_count is 1 and
\* current_speaker_index is still 0.
C31_ServiceStartDebate ==
    [][(/\ lastOp'.op = "DebateService.start_debate"
        /\ session.status = "preparing"
        /\ Len(session.participants) >= 2
        /\ DistinctNames(session))
       => (LET n == Len(session.messages)
               P == Len(session.participants)
               after == session'.messages
           IN /\ lastOp'.ret = "None"
              /\ session'.status = "active"
              /\ Len(after) = n + 1 + P
              /\ IsPrefix(session.messages, after)
              /\ after[n + 1] = Message("system", "begun", {})
              /\ \A i \in 1 .. P :
                    /\ after[n + 1 + i].type = "philosopher"
                    /\ after[n + 1 + i].content
                          \in {"text", "look_forward"}
                    /\ DictGet(after[n + 1 + i].metadata, "speaker", "absent")
                          = session.participants[i].name
                    /\ session'.participants[i].name
                          = session.participants[i].name
                    /\ session'.participants[i].turn_count = 1
              /\ Len(session'.participants) = P
              /\ session.current_speaker_index = 0
              /\ session'.current_speaker_index = 0)]_vars

\* three philosophers started, the backend failing for the second only
C31_Witness ==
    /\ lastOp = Op("DebateService.start_debate", "None")
    /\ Len(session.participants) = 3
    /\ DistinctNames(session)
    /\ Len(session.messages) = 4
    /\ session.messages[2].content = "text"
    /\ session.messages[3].content = "look_forward"
    /\ session.messages[4].content = "text"
    /\ \A i \in 1 .. 3 : session.participants[i].turn_count = 1
    /\ session.current_speaker_index = 0

\* C32: round-robin fairness. In a debate run through the service
\* (DebateService.start_debate, then get_next_response, pause and resume in
\* any order) whose participants have pairwise distinct names, the
\* turn_counts of any two participants differ by at most 1 and the
\* participant at current_speaker_index has the smallest turn_count.
C32_RoundRobinFairness ==
    DistinctNames(session)
    => LET P == Len(session.participants)
           count(i) == session.participants[i].turn_count
       IN /\ \A i, j \in 1 .. P : count(i) - count(j) <= 1
          /\ session.current_speaker_index < P
          /\ \A j \in 1 .. P :
                count(session.current_speaker_index + 1) <= count(j)

\* resumed in the middle of a round: the first participant has spoken twice,
\* the second, who is next, once
C32_Witness ==
    /\ lastOp = Op("resume_debate", "None")
    /\ session.status = "active"
    /\ DistinctNames(session)
    /\ session.current_speaker_index = 1
    /\ session.participants[1].turn_count = 2
    /\ session.participants[2].turn_count = 1

\* C33: whenever a debate has status ACTIVE it has at least 2 participants
\* and started_at is set, in every state reached from a fresh session by
\* add_participant, start_debate, pause_debate, resume_debate and
\* complete_debate.
C33_ActiveHasQuorum ==
    session.status = "active"
    => /\ Len(session.participants) >= 2
       /\ session.started_at # None

\* C34: whenever a debate has status COMPLETED every participant's
\* turn_count equals max_turns_per_participant, as the closing system
\* message says, for a debate completed by get_next_response and for one
\* ended by the /end command.
C34_CompletedAfterAllTurns ==
    session.status = "completed"
    => \A i \in 1 .. Len(session.participants) :
          session.participants[i].turn_count
             = session.max_turns_per_participant

\* C36: in the interactive debate loop the /pause command does not end the
\* loop: after /pause the loop asks for the next input, so that a following
\* /resume can bring the debate back to ACTIVE and further turns follow.
C36_PauseKeepsLoop ==
    [][(loop = "input" /\ lastOp'.op = "/pause") => loop' = "input"]_vars

\* C37: in the interactive debate loop every generated turn is shown under
\* the name of the participant who produced it: the name displayed with a
\* response is the speaker recorded on the philosopher message that
\* get_next_response appended for it.
C37_ShownUnderSpeaker ==
    [][(lastOp'.op = "turn" /\ lastOp'.path = "turn")
       => (LET n == Len(session'.messages)
           IN /\ n = Len(session.messages) + 1
              /\ session'.messages[n].type = "philosopher"
              /\ lastOp'.shown
                    = DictGet(session'.messages[n].metadata,
                              "speaker", "absent"))]_vars

\* C35: the dialogue log stays bounded: for a session created by
\* start_dialogue, after every send_message call that returns (with a reply
\* or with the apology) the log holds at most 2 * max_history_length
\* messages.
C35_DialogueLogBounded ==
    [][(lastOp'.op = "send_message" /\ lastOp'.exc = "None")
       => Len(dialogues'[lastOp'.arg[1]].messages)
             <= 2 * max_history_length]_vars

\* C38: when the user ends a dialogue with /end and the save succeeds, the
\* copy of the session left in the store is the ended session: it has
\* is_active false, its log ends with the session-ended system message,
\* and it equals the session in memory after the command.
C38_EndIsStored ==
    [][(lastOp'.op = "/end" /\ lastOp'.exc = "None")
       => (LET s == dialogues'[lastOp'.arg[1]]
               r == load_dialogue_session(files', s.id, now)
           IN /\ r.exc = "None"
              /\ ~ r.s[1].is_active
              /\ Len(r.s[1].messages) > 0
              /\ r.s[1].messages[Len(r.s[1].messages)]
                    = Message("system", "ended", {})
              /\ SameDialogue(r.s[1], s))]_vars

\* hist is made of the entries of the last Len(hist) messages of the log
\* that are no system messages, in log order
IsRecentHistory(hist, log) ==
    LET kept == KeptIndices(log, FALSE)
        n == Len(hist)
        m == Len(kept)
    IN /\ n <= m
       /\ \A j \in 1 .. n :
             LET message == log[kept[m - n + j]]
             IN /\ message.type # "system"
                /\ hist[j].role = IF message.type = "user"
                                  THEN "user" ELSE "assistant"
                /\ Len(hist[j].content) >= 1
                /\ hist[j].content[Len(hist[j].content)] = message.content

====
